---- MODULE Spec2Model ----
(***************************************************************************)
(* A model of the ledger journal parser (src/src/parser.rs), the           *)
(* serializer (src/src/serializer.rs) and the entry point                  *)
(* Ledger::from_str (src/src/model.rs).                                    *)
(*                                                                         *)
(* Text is a sequence of characters, each character a one-element string.  *)
(* The only character wider than one byte that the model uses is the euro  *)
(* sign, written "U+20AC" (three bytes in UTF-8).                          *)
(*                                                                         *)
(* A sub-parser returns a record [k, rest, v] like nom's IResult:          *)
(*   k = "Ok"          rest is the remaining input, v the value            *)
(*   k = "Error"       rest is the input at the point of failure, v the    *)
(*                     nom ErrorKind (a recoverable error: alt and opt     *)
(*                     try something else)                                 *)
(*   k = "Incomplete"  Err::Incomplete(Needed), which no combinator        *)
(*                     recovers from                                       *)
(* Option values are sequences: <<>> is None and <<v>> is Some(v).         *)
(***************************************************************************)
EXTENDS Naturals, Integers, Sequences, FiniteSets, TLC

VARIABLES
    input,      \* the text handed to the entry point
    settings,   \* the SerializerSettings in use
    pc,         \* the step the run is at
    round,      \* 1: parsing input, 2: parsing the serializer's output
    rest,       \* many0's remaining input in parse_ledger
    items,      \* many0's accumulator in parse_ledger
    result,     \* outcome of Ledger::from_str in the current round
    doc,        \* the Ledger of round 1
    text1,      \* serialize(doc, settings)
    text2,      \* serialize(parse(text1), settings)
    written     \* the fields a generated date or amount text was written from

vars == <<input, written, settings, pc, round, rest, items, result, doc, text1, text2>>

----------------------------------------------------------------------------
(* Characters *)

EuroSign == "U+20AC"

Digits == {"0", "1", "2", "3", "4", "5", "6", "7", "8", "9"}

Letters ==
    {"a", "b", "c", "d", "e", "f", "g", "h", "i", "j", "k", "l", "m",
     "n", "o", "p", "q", "r", "s", "t", "u", "v", "w", "x", "y", "z",
     "A", "B", "C", "D", "E", "F", "G", "H", "I", "J", "K", "L", "M",
     "N", "O", "P", "Q", "R", "S", "T", "U", "V", "W", "X", "Y", "Z"}

DigitVal(c) ==
    CASE c = "0" -> 0 [] c = "1" -> 1 [] c = "2" -> 2 [] c = "3" -> 3
      [] c = "4" -> 4 [] c = "5" -> 5 [] c = "6" -> 6 [] c = "7" -> 7
      [] c = "8" -> 8 [] c = "9" -> 9

DigitChar(n) ==
    CASE n = 0 -> "0" [] n = 1 -> "1" [] n = 2 -> "2" [] n = 3 -> "3"
      [] n = 4 -> "4" [] n = 5 -> "5" [] n = 6 -> "6" [] n = 7 -> "7"
      [] n = 8 -> "8" [] n = 9 -> "9"

\* len_utf8 of a character
ByteLen(c) == IF c = EuroSign THEN 3 ELSE 1

IsSpace(c) == c = " " \/ c = "\t"

IsAlphanumeric(c) == c \in Letters \/ c \in Digits

\* the characters a commodity name written without quotes cannot contain
\* (all those of the source but the backquote, which no text here contains)
NotCommodityChars ==
    Digits \cup
    {"{", "}", "[", "]", "(", ")", "~", "!", "@", "#", "%", "^", "&",
     "*", "-", "=", "+", "\\", "'", "\"", ",", ".", "/", "?", " ", ";",
     "\t", "\r", "\n"}

is_commodity_char(c) == c \notin NotCommodityChars

----------------------------------------------------------------------------
(* Results and the nom primitives the grammar is built from *)

None == <<>>
Some(v) == <<v>>
IsSome(o) == o # <<>>

Ok(r, v) == [k |-> "Ok", rest |-> r, v |-> v]
Error(r, kind) == [k |-> "Error", rest |-> r, v |-> kind]
Incomplete == [k |-> "Incomplete", rest |-> <<>>, v |-> "Needed"]

IsOk(r) == r.k = "Ok"

Drop(s, n) == SubSeq(s, n + 1, Len(s))
Take(s, n) == SubSeq(s, 1, n)

\* The length of the longest prefix of s, from index i on, whose characters
\* are all in (or all not in) a class.
RECURSIVE SpanEnd(_, _, _)
SpanEnd(s, i, class) ==
    IF i <= Len(s) /\ s[i] \in class THEN SpanEnd(s, i + 1, class) ELSE i - 1

RECURSIVE SpanNotEnd(_, _, _)
SpanNotEnd(s, i, class) ==
    IF i <= Len(s) /\ s[i] \notin class THEN SpanNotEnd(s, i + 1, class) ELSE i - 1

HasPrefix(s, p) == Len(s) >= Len(p) /\ Take(s, Len(p)) = p

\* tag(p) and char(c)
Tag(s, p) == IF HasPrefix(s, p) THEN Ok(Drop(s, Len(p)), p) ELSE Error(s, "Tag")
Char(s, c) == IF Len(s) > 0 /\ s[1] = c THEN Ok(Drop(s, 1), c) ELSE Error(s, "Char")

\* opt(p): a recoverable error becomes None, anything else passes through
Opt(s, r) ==
    CASE r.k = "Ok" -> Ok(r.rest, Some(r.v))
      [] r.k = "Error" -> Ok(s, None)
      [] OTHER -> r

\* alt((p, q)): q is tried only on a recoverable error of p
Alt(r1, r2) == IF r1.k = "Error" THEN r2 ELSE r1

\* sequencing: F continues from an Ok result r, any other result of r is
\* the result (the ? operator, and the elements of tuple/pair/preceded)
Then(r, F(_)) == IF r.k = "Ok" THEN F(r) ELSE r

\* a let binding
With(v, F(_)) == F(v)

\* a parser's Ok result that takes the first n characters of s
SplitOk(s, n) == Ok(Drop(s, n), Take(s, n))

\* the same for a parser that must take at least one character
Span1(s, n, kind) == IF n = 0 THEN Error(s, kind) ELSE SplitOk(s, n)

space0(s) == SplitOk(s, SpanEnd(s, 1, {" ", "\t"}))

space1(s) == Span1(s, SpanEnd(s, 1, {" ", "\t"}), "Space")

digit0(s) == SplitOk(s, SpanEnd(s, 1, Digits))

digit1(s) == Span1(s, SpanEnd(s, 1, Digits), "Digit")

alphanumeric1(s) == Span1(s, SpanEnd(s, 1, Letters \cup Digits), "AlphaNumeric")

line_ending(s) ==
    IF HasPrefix(s, <<"\n">>) THEN Ok(Drop(s, 1), <<"\n">>)
    ELSE IF HasPrefix(s, <<"\r", "\n">>) THEN Ok(Drop(s, 2), <<"\r", "\n">>)
    ELSE Error(s, "CrLf")

\* not_line_ending: up to the first \r or \n; a \r that does not start a
\* \r\n is an error
NotLineEndingAt(s, n) ==
    IF n < Len(s) /\ s[n + 1] = "\r" /\ ~HasPrefix(Drop(s, n), <<"\r", "\n">>)
    THEN Error(s, "Tag")
    ELSE SplitOk(s, n)

not_line_ending(s) == NotLineEndingAt(s, SpanNotEnd(s, 1, {"\r", "\n"}))

eof(s) == IF Len(s) = 0 THEN Ok(s, <<>>) ELSE Error(s, "Eof")

eol_or_eof(s) == Alt(line_ending(s), eof(s))

Min(a, b) == IF a < b THEN a ELSE b

TakeAtLeast(s, m, got) == IF got < m THEN Error(s, "TakeWhileMN") ELSE SplitOk(s, got)

\* take_while_m_n(m, n, is_dec_digit)
TakeDigitsMN(s, m, n) == TakeAtLeast(s, m, Min(SpanEnd(s, 1, Digits), n))

\* str::trim_end and str::trim (whitespace of the model's alphabet)
Whitespace == {" ", "\t", "\r", "\n"}

RECURSIVE TrimEnd(_)
TrimEnd(s) ==
    IF Len(s) > 0 /\ s[Len(s)] \in Whitespace THEN TrimEnd(Take(s, Len(s) - 1)) ELSE s

Trim(s) == TrimEnd(Drop(s, SpanEnd(s, 1, Whitespace)))

\* i32::from_str / the mantissa of a digit string
RECURSIVE DigitsToNat(_)
DigitsToNat(ds) ==
    IF Len(ds) = 0 THEN 0
    ELSE 10 * DigitsToNat(Take(ds, Len(ds) - 1)) + DigitVal(ds[Len(ds)])

RECURSIVE NatToDigits(_)
NatToDigits(n) ==
    IF n < 10 THEN <<DigitChar(n)>>
    ELSE Append(NatToDigits(n \div 10), DigitChar(n % 10))

RECURSIVE Pow10(_)
Pow10(n) == IF n = 0 THEN 1 ELSE 10 * Pow10(n - 1)

\* a number printed with at least w digits (chrono's %Y, %m, %d, %H, %M, %S)
RECURSIVE ZeroPad(_, _)
ZeroPad(ds, w) == IF Len(ds) >= w THEN ds ELSE ZeroPad(<<"0">> \o ds, w)

----------------------------------------------------------------------------
(* Dates *)

number_n(s, n) ==
    Then(TakeDigitsMN(s, n, n), LAMBDA r: Ok(r.rest, DigitsToNat(r.v)))

DateSeparator(s) == Alt(Char(s, "-"), Alt(Char(s, "/"), Char(s, ".")))

parse_date_internal(s) ==
    Then(number_n(s, 4), LAMBDA y:
    Then(DateSeparator(y.rest), LAMBDA s1:
    Then(number_n(s1.rest, 2), LAMBDA m:
    Then(DateSeparator(m.rest), LAMBDA s2:
    Then(number_n(s2.rest, 2), LAMBDA d:
    Ok(d.rest, <<y.v, m.v, d.v>>))))))

parse_time_internal(s) ==
    Then(number_n(s, 2), LAMBDA h:
    Then(Char(h.rest, ":"), LAMBDA s1:
    Then(number_n(s1.rest, 2), LAMBDA m:
    Then(Char(m.rest, ":"), LAMBDA s2:
    Then(number_n(s2.rest, 2), LAMBDA sec:
    Ok(sec.rest, <<h.v, m.v, sec.v>>))))))

parse_datetime_internal(s) ==
    Then(parse_date_internal(s), LAMBDA d:
    Then(space1(d.rest), LAMBDA sp:
    Then(parse_time_internal(sp.rest), LAMBDA t:
    Ok(t.rest, d.v \o t.v))))

IsLeapYear(y) == (y % 4 = 0 /\ y % 100 # 0) \/ y % 400 = 0

DaysInMonth(y, m) ==
    CASE m \in {1, 3, 5, 7, 8, 10, 12} -> 31
      [] m \in {4, 6, 9, 11} -> 30
      [] m = 2 -> IF IsLeapYear(y) THEN 29 ELSE 28
      [] OTHER -> 0

\* a date constructor that takes any three numbers as a date
FromYmdUnchecked(y, m, d) == Some([y |-> y, m |-> m, d |-> d])

\* NaiveDate::from_ymd_opt
from_ymd_opt(y, m, d) ==
    IF m >= 1 /\ m <= 12 /\ d >= 1 /\ d <= DaysInMonth(y, m)
    THEN Some([y |-> y, m |-> m, d |-> d])
    ELSE None

\* NaiveDate::and_hms_opt
and_hms_opt(date, h, mi, sec) ==
    IF h < 24 /\ mi < 60 /\ sec < 60
    THEN Some([y |-> date.y, m |-> date.m, d |-> date.d,
               h |-> h, mi |-> mi, s |-> sec])
    ELSE None

\* map_opt: None becomes a recoverable error at the parser's own input
MapOpt(s, r, o) == IF IsSome(o) THEN Ok(r.rest, o[1]) ELSE Error(s, "MapOpt")

parse_date(s) ==
    Then(parse_date_internal(s), LAMBDA r:
    MapOpt(s, r, from_ymd_opt(r.v[1], r.v[2], r.v[3])))

parse_datetime(s) ==
    Then(parse_datetime_internal(s), LAMBDA r:
    With(from_ymd_opt(r.v[1], r.v[2], r.v[3]), LAMBDA date:
    MapOpt(s, r, IF IsSome(date)
                 THEN and_hms_opt(date[1], r.v[4], r.v[5], r.v[6])
                 ELSE None)))

----------------------------------------------------------------------------
(* Quantities, commodities and amounts *)

\* Decimal::from_str of sign, integer digits and fraction digits. A Decimal
\* is its sign, its mantissa and its scale; zero carries no sign.
DecimalFromStr(sign, int, frac) ==
    [neg |-> sign /\ DigitsToNat(int \o frac) # 0,
     mant |-> DigitsToNat(int \o frac), scale |-> Len(frac)]

\* quantity * Decimal::new(-1, 0); a zero product is Decimal::ZERO
DecimalNegate(q) ==
    IF q.mant = 0 THEN [neg |-> FALSE, mant |-> 0, scale |-> 0]
    ELSE [neg |-> ~q.neg, mant |-> q.mant, scale |-> q.scale]

\* many1(preceded(char(','), take_while_m_n(3, 3, is_dec_digit))), joined
RECURSIVE QuantityGroups(_, _)
QuantityGroups(s, acc) ==
    With(Then(Char(s, ","), LAMBDA c: TakeDigitsMN(c.rest, 3, 3)), LAMBDA g:
    IF IsOk(g) THEN QuantityGroups(g.rest, acc \o g.v)
    ELSE IF Len(acc) = 0 THEN Error(s, "Many1")
    ELSE Ok(s, acc))

QuantityGrouped(s) ==
    Then(TakeDigitsMN(s, 1, 3), LAMBDA leading:
    Then(QuantityGroups(leading.rest, <<>>), LAMBDA groups:
    Ok(groups.rest, leading.v \o groups.v)))

OptValue(o) == IF IsSome(o) THEN o[1] ELSE <<>>

\* a quantity parser that tries the bare digit run only
parse_quantity_ungrouped(s) ==
    With(Opt(s, Tag(s, <<"-">>)), LAMBDA sign:
    With(digit0(sign.rest), LAMBDA int:
    With(Opt(int.rest, Then(Char(int.rest, "."), LAMBDA dot: digit1(dot.rest))),
         LAMBDA frac:
    IF Len(int.v) + Len(OptValue(frac.v)) = 0
    THEN Error(s, "MapRes")
    ELSE Ok(frac.rest, DecimalFromStr(IsSome(sign.v), int.v, OptValue(frac.v))))))

parse_quantity(s) ==
    With(Opt(s, Tag(s, <<"-">>)), LAMBDA sign:
    With(Alt(QuantityGrouped(sign.rest), digit0(sign.rest)), LAMBDA int:
    With(Opt(int.rest, Then(Char(int.rest, "."), LAMBDA dot: digit1(dot.rest))),
         LAMBDA frac:
    IF Len(int.v) + Len(OptValue(frac.v)) = 0
    THEN Error(s, "MapRes")
    ELSE Ok(frac.rest, DecimalFromStr(IsSome(sign.v), int.v, OptValue(frac.v))))))

\* fold_many1(string_fragment, ...): runs of characters other than \ and ",
\* and the escape \" standing for "
RECURSIVE StringContents(_, _)
StringContents(s, acc) ==
    IF SpanNotEnd(s, 1, {"\\", "\""}) > 0
    THEN StringContents(Drop(s, SpanNotEnd(s, 1, {"\\", "\""})),
                        acc \o Take(s, SpanNotEnd(s, 1, {"\\", "\""})))
    ELSE IF HasPrefix(s, <<"\\", "\"">>)
    THEN StringContents(Drop(s, 2), Append(acc, "\""))
    ELSE IF Len(acc) = 0 THEN Error(s, "Many1")
    ELSE Ok(s, acc)

string_between_quotes(s) ==
    Then(Char(s, "\""), LAMBDA q1:
    Then(StringContents(q1.rest, <<>>), LAMBDA body:
    Then(Char(body.rest, "\""), LAMBDA q2:
    Ok(q2.rest, body.v))))

commodity_without_quotes(s) ==
    Span1(s, SpanNotEnd(s, 1, NotCommodityChars), "TakeWhile1")

parse_commodity(s) == Alt(string_between_quotes(s), commodity_without_quotes(s))

Amount(q, name, position) ==
    [quantity |-> q, commodity |-> [name |-> name, position |-> position]]

\* a commodity-first alternative that reads the leading "-" and then
\* leaves the quantity as written
AmountCommodityFirstUnsigned(s) ==
    With(Opt(s, Then(Char(s, "-"), LAMBDA m: space0(m.rest))), LAMBDA neg:
    Then(parse_commodity(neg.rest), LAMBDA name:
    Then(parse_quantity(space0(name.rest).rest), LAMBDA q:
    Ok(q.rest, Amount(q.v, name.v, "Left")))))

\* first alternative of parse_amount: [-] commodity quantity
AmountCommodityFirst(s) ==
    With(Opt(s, Then(Char(s, "-"), LAMBDA m: space0(m.rest))), LAMBDA neg:
    Then(parse_commodity(neg.rest), LAMBDA name:
    Then(parse_quantity(space0(name.rest).rest), LAMBDA q:
    Ok(q.rest,
       Amount(IF IsSome(neg.v) THEN DecimalNegate(q.v) ELSE q.v, name.v, "Left")))))

\* second alternative of parse_amount: quantity commodity
AmountQuantityFirst(s) ==
    Then(parse_quantity(s), LAMBDA q:
    Then(parse_commodity(space0(q.rest).rest), LAMBDA name:
    Ok(name.rest, Amount(q.v, name.v, "Right"))))

parse_amount(s) == Alt(AmountCommodityFirst(s), AmountQuantityFirst(s))

----------------------------------------------------------------------------
(* Posting amounts, balances, commodity prices, top-level lines *)

Price(kind, amount) == [kind |-> kind, amount |-> amount]

LotPriceTotal(s) ==
    Then(Tag(s, <<"{", "{">>), LAMBDA open:
    Then(parse_amount(space0(open.rest).rest), LAMBDA a:
    Then(Tag(space0(a.rest).rest, <<"}", "}">>), LAMBDA close:
    Ok(close.rest, Price("Total", a.v)))))

LotPriceUnit(s) ==
    Then(Char(s, "{"), LAMBDA open:
    Then(parse_amount(space0(open.rest).rest), LAMBDA a:
    Then(Char(space0(a.rest).rest, "}"), LAMBDA close:
    Ok(close.rest, Price("Unit", a.v)))))

parse_lot_price(s) == Alt(LotPriceTotal(s), LotPriceUnit(s))

PriceTotal(s) ==
    Then(Tag(s, <<"@", "@">>), LAMBDA at:
    Then(parse_amount(space0(at.rest).rest), LAMBDA a:
    Ok(a.rest, Price("Total", a.v))))

PriceUnit(s) ==
    Then(Char(s, "@"), LAMBDA at:
    Then(parse_amount(space0(at.rest).rest), LAMBDA a:
    Ok(a.rest, Price("Unit", a.v))))

\* a price parser that knows the single form only
parse_price_unit_only(s) == PriceUnit(s)

parse_price(s) == Alt(PriceTotal(s), PriceUnit(s))

parse_posting_amount(s) ==
    Then(parse_amount(s), LAMBDA a:
    Then(Opt(a.rest, parse_lot_price(space0(a.rest).rest)), LAMBDA lot:
    Then(Opt(lot.rest, parse_price(space0(lot.rest).rest)), LAMBDA price:
    Ok(price.rest, [amount |-> a.v, lot_price |-> lot.v, price |-> price.v]))))

BalanceZero == [kind |-> "Zero", amount |-> None]
BalanceAmount(a) == [kind |-> "Amount", amount |-> Some(a)]

parse_balance(s) ==
    Alt(Then(parse_amount(s), LAMBDA a: Ok(a.rest, BalanceAmount(a.v))),
        Then(Char(s, "0"), LAMBDA z: Ok(z.rest, BalanceZero)))

parse_commodity_price(s) ==
    Then(Char(s, "P"), LAMBDA p:
    Then(space1(p.rest), LAMBDA sp1:
    Then(parse_datetime(sp1.rest), LAMBDA datetime:
    Then(space1(datetime.rest), LAMBDA sp2:
    Then(parse_commodity(sp2.rest), LAMBDA name:
    Then(space1(name.rest), LAMBDA sp3:
    Then(parse_amount(sp3.rest), LAMBDA amount:
    With(space0(amount.rest).rest, LAMBDA t:
    Then(Opt(t, Then(Char(t, ";"), LAMBDA semi: not_line_ending(semi.rest))),
         LAMBDA note:
    Then(eol_or_eof(note.rest), LAMBDA end:
    Ok(end.rest,
       [datetime |-> datetime.v, commodity_name |-> name.v,
        amount |-> amount.v])))))))))))

\* an empty-line parser that accepts the end of input with no blank
parse_empty_line_at_eof(s) ==
    Alt(line_ending(space0(s).rest), eof(space0(s).rest))

parse_empty_line(s) ==
    Alt(line_ending(space0(s).rest),
        Then(space1(s), LAMBDA sp1: eof(sp1.rest)))

LineCommentChars == {";", "#", "%", "|", "*"}

parse_global_line_comment(s) ==
    With(space0(s).rest, LAMBDA t:
    IF ~(Len(t) > 0 /\ t[1] \in LineCommentChars) THEN Error(t, "Char") ELSE
    Then(not_line_ending(space0(Drop(t, 1)).rest), LAMBDA body:
    Then(eol_or_eof(body.rest), LAMBDA end:
    Ok(end.rest, TrimEnd(body.v)))))

\* an include parser that does not verify the path
parse_include_file_unverified(s) ==
    Then(Tag(space0(s).rest, <<"i", "n", "c", "l", "u", "d", "e">>), LAMBDA kw:
    Then(space1(kw.rest), LAMBDA sp:
    Then(not_line_ending(sp.rest), LAMBDA path:
    Then(eol_or_eof(path.rest), LAMBDA end:
    Ok(end.rest, TrimEnd(path.v))))))

parse_include_file(s) ==
    Then(Tag(space0(s).rest, <<"i", "n", "c", "l", "u", "d", "e">>), LAMBDA kw:
    Then(space1(kw.rest), LAMBDA sp:
    Then(not_line_ending(sp.rest), LAMBDA path:
    Then(eol_or_eof(path.rest), LAMBDA end:
    IF Len(TrimEnd(path.v)) = 0 THEN Error(sp.rest, "Verify")
    ELSE Ok(end.rest, TrimEnd(path.v))))))

----------------------------------------------------------------------------
(* Metadata comments: dates, tags, free comments *)

Metadata(comment, date, effective_date, tags) ==
    [comment |-> comment, date |-> date, effective_date |-> effective_date,
     tags |-> tags]

MetadataDefault == Metadata(None, None, None, <<>>)

TagOf(name, value) == [name |-> name, value |-> value]
TagValue(kind, v) == [kind |-> kind, v |-> v]

parse_metadata_date(s) ==
    Then(Char(space0(s).rest, "["), LAMBDA open:
    Then(Opt(open.rest, parse_date(open.rest)), LAMBDA date:
    Then(Opt(date.rest, Then(Char(date.rest, "="), LAMBDA eq: parse_date(eq.rest))),
         LAMBDA eff:
    Then(Char(eff.rest, "]"), LAMBDA close:
    Ok(close.rest, Metadata(None, date.v, eff.v, <<>>))))))

\* an f64 written without exponent: sign, mantissa and scale with the
\* trailing zeros of the fraction removed
RECURSIVE FloatNormal(_, _, _)
FloatNormal(neg, mant, scale) ==
    IF scale > 0 /\ mant % 10 = 0 THEN FloatNormal(neg, mant \div 10, scale - 1)
    ELSE [inf |-> FALSE, neg |-> neg, mant |-> mant, scale |-> scale]

TagValueInteger(s) ==
    Then(Opt(s, Char(s, "-")), LAMBDA sign:
    Then(digit1(sign.rest), LAMBDA ds:
    IF IsOk(Char(ds.rest, ".")) THEN Error(ds.rest, "Not") ELSE
    Ok(ds.rest,
       TagValue("Integer",
                [neg |-> IsSome(sign.v) /\ DigitsToNat(ds.v) # 0,
                 mant |-> DigitsToNat(ds.v)]))))

\* nom's double, then NotNan::new, on the forms without exponent:
\* [+-]digits[.[digits]], [+-].digits, and the unsigned words nan (which
\* NotNan::new refuses) and inf
TagValueFloat(s) ==
    IF HasPrefix(s, <<"n", "a", "n">>) THEN Error(s, "MapRes")
    ELSE IF HasPrefix(s, <<"i", "n", "f">>)
    THEN Ok(Drop(s, 3),
            TagValue("Float", [inf |-> TRUE, neg |-> FALSE, mant |-> 0, scale |-> 0]))
    ELSE
    Then(Opt(s, Alt(Char(s, "-"), Char(s, "+"))), LAMBDA sign:
    Then(digit0(sign.rest), LAMBDA int:
    Then(Alt(Then(Char(int.rest, "."), LAMBDA dot: digit0(dot.rest)),
             Ok(int.rest, <<>>)), LAMBDA frac:
    IF Len(int.v) + Len(frac.v) = 0 THEN Error(s, "Float")
    ELSE Ok(frac.rest,
            TagValue("Float",
                     FloatNormal(IsSome(sign.v) /\ sign.v = Some("-"),
                                 DigitsToNat(int.v \o frac.v), Len(frac.v)))))))

TagValueDate(s) ==
    Then(Char(s, "["), LAMBDA open:
    Then(parse_date(open.rest), LAMBDA date:
    Then(Char(date.rest, "]"), LAMBDA close:
    Ok(close.rest, TagValue("Date", date.v)))))

parse_tag_value(s) == Alt(TagValueInteger(s), Alt(TagValueFloat(s), TagValueDate(s)))

\* Name: text
TagWithString(s) ==
    Then(alphanumeric1(s), LAMBDA name:
    Then(Char(name.rest, ":"), LAMBDA colon:
    Then(space1(colon.rest), LAMBDA sp:
    Then(not_line_ending(sp.rest), LAMBDA text:
    Ok(text.rest, TagOf(name.v, Some(TagValue("String", TrimEnd(text.v)))))))))

\* Name:: typed value
TagWithTypedValue(s) ==
    Then(alphanumeric1(s), LAMBDA name:
    Then(Tag(name.rest, <<":", ":">>), LAMBDA colons:
    Then(space1(colons.rest), LAMBDA sp:
    Then(parse_tag_value(sp.rest), LAMBDA value:
    Ok(value.rest, TagOf(name.v, Some(value.v)))))))

parse_metadata_tag_with_value(s) ==
    Then(Alt(TagWithString(space0(s).rest), TagWithTypedValue(space0(s).rest)),
         LAMBDA r: Ok(r.rest, Metadata(None, None, None, <<r.v>>)))

\* separated_list1(char(':'), alphanumeric1) after the first name
RECURSIVE TagNames(_, _)
TagNames(s, acc) ==
    With(Then(Char(s, ":"), LAMBDA sep: alphanumeric1(sep.rest)), LAMBDA name:
    IF IsOk(name) THEN TagNames(name.rest, Append(acc, TagOf(name.v, None)))
    ELSE Ok(s, acc))

parse_tags(s) ==
    Then(Char(s, ":"), LAMBDA open:
    Then(alphanumeric1(open.rest), LAMBDA first:
    Then(TagNames(first.rest, <<TagOf(first.v, None)>>), LAMBDA names:
    Then(Char(names.rest, ":"), LAMBDA close:
    Ok(close.rest, names.v)))))

\* many1 over single characters: any character but : \r \n, or a : at
\* which parse_tags does not match; the number of characters taken
RECURSIVE CommentTextEnd(_, _)
CommentTextEnd(s, i) ==
    IF i > Len(s) THEN i - 1
    ELSE IF s[i] \notin {":", "\r", "\n"} THEN CommentTextEnd(s, i + 1)
    ELSE IF s[i] = ":" /\ ~IsOk(parse_tags(Drop(s, i - 1))) THEN CommentTextEnd(s, i + 1)
    ELSE i - 1

\* reduce over the comments present: one of them, or both joined by sep
JoinComments(c1, c2, sep) ==
    IF IsSome(c1) /\ IsSome(c2) THEN Some(c1[1] \o sep \o c2[1]) ELSE c1 \o c2

\* a comment parser that joins the two texts without a space
parse_comment_with_tags_unspaced(s) ==
    With(space0(s).rest, LAMBDA t:
    With(CommentTextEnd(t, 1), LAMBDA n:
    With(Opt(Drop(t, n), parse_tags(Drop(t, n))), LAMBDA tags:
    With(not_line_ending(tags.rest), LAMBDA tail:
    With(IF IsOk(tail) /\ Len(Trim(tail.v)) > 0 THEN Some(Trim(tail.v)) ELSE None,
         LAMBDA s2:
    Ok(IF IsSome(s2) THEN tail.rest ELSE tags.rest,
       Metadata(JoinComments(IF n = 0 THEN None ELSE Some(TrimEnd(Take(t, n))),
                             s2, <<>>),
                None, None, OptValue(tags.v))))))))

parse_comment_with_tags(s) ==
    With(space0(s).rest, LAMBDA t:
    With(CommentTextEnd(t, 1), LAMBDA n:
    With(Opt(Drop(t, n), parse_tags(Drop(t, n))), LAMBDA tags:
    With(not_line_ending(tags.rest), LAMBDA tail:
    With(IF IsOk(tail) /\ Len(Trim(tail.v)) > 0 THEN Some(Trim(tail.v)) ELSE None,
         LAMBDA s2:
    Ok(IF IsSome(s2) THEN tail.rest ELSE tags.rest,
       Metadata(JoinComments(IF n = 0 THEN None ELSE Some(TrimEnd(Take(t, n))),
                             s2, <<" ">>),
                None, None, OptValue(tags.v))))))))

\* many0(pair(space0, line_ending)): the input after the blank line ends
RECURSIVE SkipLineEndings(_)
SkipLineEndings(s) ==
    With(line_ending(space0(s).rest), LAMBDA e:
    IF IsOk(e) THEN SkipLineEndings(e.rest) ELSE s)

\* one element of the fold: line endings, blanks, `;`, then one of the three
\* metadata forms
MetadataLine(s) ==
    Then(Char(space0(SkipLineEndings(s)).rest, ";"), LAMBDA semi:
    Alt(parse_metadata_date(semi.rest),
        Alt(parse_metadata_tag_with_value(semi.rest),
            parse_comment_with_tags(semi.rest))))

OrElse(o2, o1) == IF IsSome(o2) THEN o2 ELSE o1

\* a combining step in which the earlier date stays
MergeMetadataFirstDate(meta1, meta2) ==
    Metadata(JoinComments(meta1.comment, meta2.comment, <<"\n">>),
             OrElse(meta1.date, meta2.date),
             OrElse(meta1.effective_date, meta2.effective_date),
             meta1.tags \o meta2.tags)

\* the fold's combining closure
MergeMetadata(meta1, meta2) ==
    Metadata(JoinComments(meta1.comment, meta2.comment, <<"\n">>),
             OrElse(meta2.date, meta1.date),
             OrElse(meta2.effective_date, meta1.effective_date),
             meta1.tags \o meta2.tags)

RECURSIVE FoldMetadata(_, _)
FoldMetadata(s, acc) ==
    With(MetadataLine(s), LAMBDA r:
    CASE r.k = "Ok" ->
           IF Len(r.rest) = Len(s) THEN Error(s, "Many0")
           ELSE FoldMetadata(r.rest, MergeMetadata(acc, r.v))
      [] r.k = "Error" -> Ok(s, acc)
      [] OTHER -> r)

parse_metadata_comments(s) ==
    Then(FoldMetadata(s, MetadataDefault), LAMBDA m:
    Then(eol_or_eof(space0(m.rest).rest), LAMBDA end:
    Ok(end.rest, m.v)))

----------------------------------------------------------------------------
(* Accounts, postings, transactions *)

RECURSIVE ByteLength(_)
ByteLength(s) == IF Len(s) = 0 THEN 0 ELSE ByteLen(s[1]) + ByteLength(Drop(s, 1))

\* the number of characters before byte offset mid
RECURSIVE CharsBefore(_, _)
CharsBefore(s, mid) ==
    IF mid <= 0 \/ Len(s) = 0 THEN 0
    ELSE 1 + CharsBefore(Drop(s, 1), mid - ByteLen(s[1]))

\* str::split_at(mid) for a byte offset mid on a character boundary
SplitAt(s, mid) == SplitOk(s, CharsBefore(s, mid))

\* the loop of take_until_hard_separator: i is the character index, pos its
\* byte offset as given by char_indices
RECURSIVE HardSeparatorScan(_, _, _, _)
HardSeparatorScan(s, i, pos, second_space) ==
    IF i > Len(s) THEN Incomplete
    ELSE IF s[i] \in {"\t", "\r", "\n"}
    THEN IF pos > 0
         THEN IF second_space THEN SplitAt(s, pos - 1) ELSE SplitAt(s, pos)
         ELSE Incomplete
    ELSE IF s[i] = " "
    THEN IF second_space THEN SplitAt(s, pos - 1)
         ELSE HardSeparatorScan(s, i + 1, pos + 1, TRUE)
    ELSE IF pos = ByteLength(s) - 1 /\ pos > 0 THEN Ok(<<>>, s)
    ELSE HardSeparatorScan(s, i + 1, pos + ByteLen(s[i]), FALSE)

take_until_hard_separator(s) == HardSeparatorScan(s, 1, 0, FALSE)

\* a test of the opening bracket alone
EnclosedPrefixOnly(name, open, close) == Len(name) >= 2 /\ name[1] = open

Enclosed(name, open, close) ==
    Len(name) >= 2 /\ name[1] = open /\ name[Len(name)] = close

Inner(name) == SubSeq(name, 2, Len(name) - 1)

parse_account(s) ==
    Then(take_until_hard_separator(s), LAMBDA r:
    IF Enclosed(r.v, "[", "]") THEN Ok(r.rest, <<Inner(r.v), "BalancedVirtual">>)
    ELSE IF Enclosed(r.v, "(", ")") THEN Ok(r.rest, <<Inner(r.v), "UnbalancedVirtual">>)
    ELSE Ok(r.rest, <<r.v, "Real">>))

parse_transaction_status(s) ==
    Alt(Then(Char(s, "*"), LAMBDA c: Ok(c.rest, "Cleared")),
        Then(Char(s, "!"), LAMBDA p: Ok(p.rest, "Pending")))

PostingMetadata(m) ==
    [date |-> m.date, effective_date |-> m.effective_date, tags |-> m.tags]

parse_posting(s) ==
    Then(space1(s), LAMBDA sp:
    Then(Opt(sp.rest, parse_transaction_status(sp.rest)), LAMBDA status:
    Then(parse_account(space0(status.rest).rest), LAMBDA acc:
    Then(Opt(acc.rest, parse_posting_amount(space0(acc.rest).rest)), LAMBDA amount:
    Then(Opt(amount.rest,
             Then(Char(space0(amount.rest).rest, "="), LAMBDA eq:
                  parse_balance(space0(eq.rest).rest))), LAMBDA balance:
    Then(parse_metadata_comments(balance.rest), LAMBDA meta:
    Ok(meta.rest,
       [account |-> acc.v[1], reality |-> acc.v[2], amount |-> amount.v,
        balance |-> balance.v, status |-> status.v, comment |-> meta.v.comment,
        metadata |-> PostingMetadata(meta.v)])))))))

parse_payee(s) ==
    Alt(Then(take_until_hard_separator(s), LAMBDA r:
        Then(space1(r.rest), LAMBDA sp:
        Then(Char(sp.rest, ";"), LAMBDA semi: r))),
        not_line_ending(s))

\* many1(parse_posting) after its first element
RECURSIVE MorePostings(_, _)
MorePostings(s, acc) ==
    With(parse_posting(s), LAMBDA p:
    CASE p.k = "Ok" ->
           IF Len(p.rest) = Len(s) THEN Error(s, "Many1")
           ELSE MorePostings(p.rest, Append(acc, p.v))
      [] p.k = "Error" -> Ok(s, acc)
      [] OTHER -> p)

\* many1(parse_posting): the first element is required
Postings(s) == Then(parse_posting(s), LAMBDA p: MorePostings(p.rest, <<p.v>>))

\* delimited(char('('), is_not(")"), char(')'))
TransactionCode(s) ==
    Then(Char(s, "("), LAMBDA open:
    Then(Span1(open.rest, SpanNotEnd(open.rest, 1, {")"}), "IsNot"), LAMBDA code:
    Then(Char(code.rest, ")"), LAMBDA close:
    Ok(close.rest, code.v))))

\* opt(preceded(space1, p))
OptAfterSpace1(s, P(_)) == Opt(s, Then(space1(s), LAMBDA sp: P(sp.rest)))

parse_transaction(s) ==
    Then(parse_date(s), LAMBDA date:
    Then(Opt(date.rest, Then(Char(date.rest, "="), LAMBDA eq: parse_date(eq.rest))),
         LAMBDA eff:
    Then(OptAfterSpace1(eff.rest, parse_transaction_status), LAMBDA status:
    Then(OptAfterSpace1(status.rest, TransactionCode), LAMBDA code:
    Then(OptAfterSpace1(code.rest, parse_payee), LAMBDA description:
    Then(parse_metadata_comments(description.rest), LAMBDA meta:
    Then(Postings(meta.rest), LAMBDA postings:
    Ok(postings.rest,
       [comment |-> meta.v.comment, date |-> date.v, effective_date |-> eff.v,
        status |-> status.v, code |-> code.v, description |-> description.v,
        posting_metadata |-> PostingMetadata(meta.v),
        postings |-> postings.v]))))))))

Item(type, v) == [type |-> type, v |-> v]

MapItem(r, type) == IF IsOk(r) THEN Ok(r.rest, Item(type, r.v)) ELSE r

parse_ledger_item(s) ==
    Alt(Then(parse_empty_line(s), LAMBDA e: Ok(e.rest, Item("EmptyLine", <<>>))),
    Alt(MapItem(parse_global_line_comment(s), "LineComment"),
    Alt(MapItem(parse_transaction(s), "Transaction"),
    Alt(MapItem(parse_commodity_price(s), "CommodityPrice"),
        MapItem(parse_include_file(s), "Include")))))

----------------------------------------------------------------------------
(* Serializer *)

SerializerSettings(indent, eol, tdf, cdf, sameline) ==
    [indent |-> indent, eol |-> eol, transaction_date_format |-> tdf,
     commodity_date_format |-> cdf, posting_comments_sameline |-> sameline]

FormatYmd == <<"%", "Y", "-", "%", "m", "-", "%", "d">>
FormatYmdHms == FormatYmd \o <<" ", "%", "H", ":", "%", "M", ":", "%", "S">>

\* settings whose indent is a single space
SettingsOneSpace == SerializerSettings(<<" ">>, <<"\n">>, FormatYmd, FormatYmdHms, FALSE)

SettingsDefault == SerializerSettings(<<" ", " ">>, <<"\n">>, FormatYmd, FormatYmdHms, FALSE)

\* chrono's format for the specifiers %Y %m %d %H %M %S; any other
\* character of the pattern is written as it is
RECURSIVE FormatDate(_, _)
FormatDate(fmt, t) ==
    IF Len(fmt) = 0 THEN <<>>
    ELSE IF fmt[1] = "%" /\ Len(fmt) >= 2
    THEN (CASE fmt[2] = "Y" -> ZeroPad(NatToDigits(t.y), 4)
            [] fmt[2] = "m" -> ZeroPad(NatToDigits(t.m), 2)
            [] fmt[2] = "d" -> ZeroPad(NatToDigits(t.d), 2)
            [] fmt[2] = "H" -> ZeroPad(NatToDigits(t.h), 2)
            [] fmt[2] = "M" -> ZeroPad(NatToDigits(t.mi), 2)
            [] fmt[2] = "S" -> ZeroPad(NatToDigits(t.s), 2)
            [] OTHER -> <<fmt[1], fmt[2]>>)
         \o FormatDate(Drop(fmt, 2), t)
    ELSE <<fmt[1]>> \o FormatDate(Drop(fmt, 1), t)

\* Display for Decimal: the mantissa with the point scale digits from the right
DecimalToString(q) ==
    LET ds == ZeroPad(NatToDigits(q.mant), q.scale + 1)
        n == Len(ds) - q.scale
    IN (IF q.neg THEN <<"-">> ELSE <<>>) \o Take(ds, n)
       \o (IF q.scale > 0 THEN <<".">> \o Drop(ds, n) ELSE <<>>)

\* Display for TagValue
TagValueToString(value) ==
    CASE value.kind = "String" -> value.v
      [] value.kind = "Integer" ->
            (IF value.v.neg THEN <<"-">> ELSE <<>>) \o NatToDigits(value.v.mant)
      [] value.kind = "Float" ->
            IF value.v.inf THEN <<"i", "n", "f">>
            ELSE DecimalToString([neg |-> value.v.neg, mant |-> value.v.mant,
                                  scale |-> value.v.scale])
      [] value.kind = "Date" -> <<"[">> \o FormatDate(FormatYmd, value.v) \o <<"]">>

\* str::split('\n')
\* a comment taken as one line, whatever it holds
SplitLinesNone(s) == <<s>>

RECURSIVE SplitLines(_)
SplitLines(s) ==
    LET n == SpanNotEnd(s, 1, {"\n"})
    IN IF n = Len(s) THEN <<s>> ELSE <<Take(s, n)>> \o SplitLines(Drop(s, n + 1))

RECURSIVE Concat(_)
Concat(ss) == IF Len(ss) = 0 THEN <<>> ELSE ss[1] \o Concat(Drop(ss, 1))

WriteStatus(status) == IF status = "Pending" THEN <<"!">> ELSE <<"*">>

WriteAmount(a) ==
    IF a.commodity.position = "Left"
    THEN a.commodity.name \o DecimalToString(a.quantity)
    ELSE DecimalToString(a.quantity) \o <<" ">> \o a.commodity.name

WritePostingAmount(pa) ==
    WriteAmount(pa.amount)
    \o (IF ~IsSome(pa.lot_price) THEN <<>>
        ELSE IF pa.lot_price[1].kind = "Unit"
        THEN <<" ", "{">> \o WriteAmount(pa.lot_price[1].amount) \o <<"}">>
        ELSE <<" ", "{", "{">> \o WriteAmount(pa.lot_price[1].amount) \o <<"}", "}">>)
    \o (IF ~IsSome(pa.price) THEN <<>>
        ELSE IF pa.price[1].kind = "Unit"
        THEN <<" ", "@", " ">> \o WriteAmount(pa.price[1].amount)
        ELSE <<" ", "@", "@", " ">> \o WriteAmount(pa.price[1].amount))

WriteBalance(b) == IF b.kind = "Zero" THEN <<"0">> ELSE WriteAmount(b.amount[1])

\* "; name" and, for a tag with a value, ": value"
WriteTag(tag) ==
    <<";", " ">> \o tag.name
    \o (IF IsSome(tag.value) THEN <<":", " ">> \o TagValueToString(tag.value[1])
        ELSE <<>>)

\* each line of a comment as eol, indent, "; ", line
WriteCommentLines(comment, st) ==
    LET lines == SplitLines(comment)
    IN Concat([i \in 1..Len(lines) |-> st.eol \o st.indent \o <<";", " ">> \o lines[i]])

WritePosting(p, st) ==
    (IF IsSome(p.status) THEN WriteStatus(p.status[1]) \o <<" ">> ELSE <<>>)
    \o (CASE p.reality = "Real" -> p.account
          [] p.reality = "BalancedVirtual" -> <<"[">> \o p.account \o <<"]">>
          [] p.reality = "UnbalancedVirtual" -> <<"(">> \o p.account \o <<")">>)
    \o (IF IsSome(p.amount) \/ IsSome(p.balance) THEN st.indent ELSE <<>>)
    \o (IF IsSome(p.amount) THEN WritePostingAmount(p.amount[1]) ELSE <<>>)
    \o (IF IsSome(p.balance) THEN <<" ", "=", " ">> \o WriteBalance(p.balance[1]) ELSE <<>>)
    \o Concat([i \in 1..Len(p.metadata.tags) |-> st.indent \o WriteTag(p.metadata.tags[i])])
    \o (IF ~IsSome(p.comment) THEN <<>>
        ELSE IF "\n" \notin {p.comment[1][i] : i \in 1..Len(p.comment[1])}
                /\ st.posting_comments_sameline
        THEN st.indent \o <<";", " ">> \o p.comment[1]
        ELSE WriteCommentLines(p.comment[1], st))

\* a transaction writer that writes the tags before the comment lines
WriteTransactionTagsFirst(t, st) ==
    FormatDate(st.transaction_date_format, t.date)
    \o (IF IsSome(t.effective_date)
        THEN <<"=">> \o FormatDate(st.transaction_date_format, t.effective_date[1])
        ELSE <<>>)
    \o (IF IsSome(t.status) THEN <<" ">> \o WriteStatus(t.status[1]) ELSE <<>>)
    \o (IF IsSome(t.code) THEN <<" ", "(">> \o t.code[1] \o <<")">> ELSE <<>>)
    \o (IF IsSome(t.description) /\ Len(t.description[1]) > 0
        THEN <<" ">> \o t.description[1] ELSE <<>>)
    \o Concat([i \in 1..Len(t.posting_metadata.tags) |->
                  st.eol \o st.indent \o WriteTag(t.posting_metadata.tags[i])])
    \o (IF IsSome(t.comment) THEN WriteCommentLines(t.comment[1], st) ELSE <<>>)
    \o Concat([i \in 1..Len(t.postings) |->
                  st.eol \o st.indent \o WritePosting(t.postings[i], st)])

WriteTransaction(t, st) ==
    FormatDate(st.transaction_date_format, t.date)
    \o (IF IsSome(t.effective_date)
        THEN <<"=">> \o FormatDate(st.transaction_date_format, t.effective_date[1])
        ELSE <<>>)
    \o (IF IsSome(t.status) THEN <<" ">> \o WriteStatus(t.status[1]) ELSE <<>>)
    \o (IF IsSome(t.code) THEN <<" ", "(">> \o t.code[1] \o <<")">> ELSE <<>>)
    \o (IF IsSome(t.description) /\ Len(t.description[1]) > 0
        THEN <<" ">> \o t.description[1] ELSE <<>>)
    \o (IF IsSome(t.comment) THEN WriteCommentLines(t.comment[1], st) ELSE <<>>)
    \o Concat([i \in 1..Len(t.posting_metadata.tags) |->
                  st.eol \o st.indent \o WriteTag(t.posting_metadata.tags[i])])
    \o Concat([i \in 1..Len(t.postings) |->
                  st.eol \o st.indent \o WritePosting(t.postings[i], st)])

WriteCommodityPrice(cp, st) ==
    <<"P", " ">> \o FormatDate(st.commodity_date_format, cp.datetime) \o <<" ">>
    \o cp.commodity_name \o <<" ">> \o WriteAmount(cp.amount)

WriteLedgerItem(item, st) ==
    CASE item.type = "EmptyLine" -> st.eol
      [] item.type = "LineComment" -> <<";", " ">> \o item.v \o st.eol
      [] item.type = "Transaction" -> WriteTransaction(item.v, st) \o st.eol
      [] item.type = "CommodityPrice" -> WriteCommodityPrice(item.v, st) \o st.eol
      [] item.type = "Include" ->
            <<"i", "n", "c", "l", "u", "d", "e", " ">> \o item.v \o st.eol

\* Serializer for Ledger, as to_string_pretty returns it
WriteLedger(ledger, st) ==
    Concat([i \in 1..Len(ledger) |-> WriteLedgerItem(ledger[i], st)])

----------------------------------------------------------------------------
(* Input texts *)

\* the largest number of fragments an input text is made of
MaxFragments == 3

TxDate == <<"2", "0", "1", "8", "-", "1", "0", "-", "0", "1">>
NL == <<"\n">>

\* The fragments input texts are made of: whole lines, each with its line
\* ending.
Fragments ==
    { TxDate \o <<" ", "A">> \o NL \o <<" ", "B", " ", " ", "$", "1">> \o NL,
      TxDate \o NL \o <<" ", "C">> \o NL,
      <<" ", "C">> \o NL,
      NL,
      <<" ", " ">> \o NL,
      <<"#", " ", "c">> \o NL,
      <<";", " ", "[", "2", "0", "1", "8", "-", "1", "0", "-", "0", "2", "]">> \o NL,
      <<"P", " ", "2", "0", "1", "7", "-", "1", "1", "-", "1", "2", " ", "1", "2", ":", "0", "0", ":", "0", "0", " ", "m", " ", "5", " ", "P", "L", "N">> \o NL,
      <<"i", "n", "c", "l", "u", "d", "e", " ", "f">> \o NL,
      <<"x">> \o NL }

RECURSIVE TextsOf(_)
TextsOf(n) ==
    IF n = 0 THEN {<<>>}
    ELSE TextsOf(n - 1) \cup {t \o f : t \in TextsOf(n - 1), f \in Fragments}

\* the transaction of the unit tests: a header and two posting lines, each
\* posting line written after the given indentation
ScenarioHeader == <<"2", "0", "1", "8", "-", "1", "0", "-", "0", "1", "=", "2", "0", "1", "8", "-", "1", "0", "-", "1", "4", " ", "!", " ", "(", "1", "2", "3", ")", " ", "M", "a", "r", "e", "k", " ", "O", "g", "a", "r", "e", "k">>
ScenarioPosting == <<"T", "E", "S", "T", ":", "A", "B", "C", " ", "1", "2", "3", " ", " ", "$", "1", ".", "2", "0">>

ScenarioWith(indent) ==
    ScenarioHeader \o NL \o indent \o ScenarioPosting
                   \o NL \o indent \o ScenarioPosting

ScenarioText == ScenarioWith(<<" ">>)

\* the text of parse_ledger_err_test
WrongInputText == <<"w", "r", "o", "n", "g", " ", "i", "n", "p", "u", "t">>

Texts == TextsOf(MaxFragments) \cup {ScenarioText, WrongInputText}

\* Serializer configurations: the default, and with_indent / with_eol /
\* struct update applied to it
SettingsSet ==
    { SettingsDefault,
      SerializerSettings(<<"\t">>, <<"\n">>, FormatYmd, FormatYmdHms, TRUE),
      SerializerSettings(<<" ", " ">>, <<"\r", "\n">>,
                         <<"%", "Y", "/", "%", "m", "/", "%", "d">>, <<"%", "Y", "/", "%", "m", "/", "%", "d", " ", "%", "H", ":", "%", "M", ":", "%", "S">>, FALSE),
      SerializerSettings(<<>>, <<"\n">>, FormatYmd, FormatYmdHms, FALSE) }

----------------------------------------------------------------------------
(* The run: Ledger::from_str on the input, the serializer on the Ledger it
   returns, and both once more on the serializer's output *)

Pending == [k |-> "Pending", ledger |-> <<>>, at |-> <<>>, kind |-> ""]

Init ==
    /\ input \in Texts
    /\ written = <<>>
    /\ settings = SettingsDefault
    /\ pc = "parse"
    /\ round = 1
    /\ rest = input
    /\ items = <<>>
    /\ result = Pending
    /\ doc = <<>>
    /\ text1 = <<>>
    /\ text2 = <<>>

\* one iteration of many0(parse_ledger_item) that yields an item
ParseItem ==
    /\ pc = "parse"
    /\ With(parse_ledger_item(rest), LAMBDA r:
            /\ r.k = "Ok"
            /\ Len(r.rest) < Len(rest)
            /\ items' = Append(items, r.v)
            /\ rest' = r.rest)
    /\ UNCHANGED <<input, written, settings, pc, round, result, doc, text1, text2>>

\* the result of parse_ledger once many0 has stopped, as finish() and
\* from_str turn it into the returned value
\* a result whose error has lost the remaining input
FromStrResultNoLocation(r, remaining, acc) ==
    IF r.k # "Ok" /\ IsOk(eof(remaining))
    THEN [k |-> "Ok", ledger |-> acc, at |-> <<>>, kind |-> ""]
    ELSE [k |-> "Err", ledger |-> <<>>, at |-> <<>>, kind |-> "Eof"]

FromStrResult(r, remaining, acc) ==
    IF r.k = "Ok" THEN [k |-> "Err", ledger |-> <<>>, at |-> remaining, kind |-> "Many0"]
    ELSE IF IsOk(eof(remaining))
    THEN [k |-> "Ok", ledger |-> acc, at |-> <<>>, kind |-> ""]
    ELSE [k |-> "Err", ledger |-> <<>>, at |-> remaining, kind |-> "Eof"]

\* many0 stops at a recoverable error of parse_ledger_item (or at an item
\* that consumed nothing); eof decides the result
ParseEnd ==
    /\ pc = "parse"
    /\ With(parse_ledger_item(rest), LAMBDA r:
            /\ r.k = "Error" \/ (r.k = "Ok" /\ Len(r.rest) = Len(rest))
            /\ result' = FromStrResult(r, rest, items))
    /\ pc' = "parsed"
    /\ UNCHANGED <<input, written, settings, round, rest, items, doc, text1, text2>>

\* Err::Incomplete reaches finish(), which panics on it
ParsePanic ==
    /\ pc = "parse"
    /\ parse_ledger_item(rest).k = "Incomplete"
    /\ result' = [k |-> "Panic", ledger |-> <<>>, at |-> rest, kind |-> "Incomplete"]
    /\ pc' = "parsed"
    /\ UNCHANGED <<input, written, settings, round, rest, items, doc, text1, text2>>

\* the caller serializes the Ledger of round 1 under a configuration of its
\* choice and parses the text again
Serialize ==
    /\ pc = "parsed"
    /\ round = 1
    /\ result.k = "Ok"
    /\ \E st \in SettingsSet :
          /\ settings' = st
          /\ text1' = WriteLedger(result.ledger, st)
          /\ rest' = WriteLedger(result.ledger, st)
    /\ doc' = result.ledger
    /\ items' = <<>>
    /\ result' = Pending
    /\ round' = 2
    /\ pc' = "parse"
    /\ UNCHANGED <<input, written, text2>>

\* the caller serializes the Ledger of round 2 under the same configuration
Reserialize ==
    /\ pc = "parsed"
    /\ round = 2
    /\ result.k = "Ok"
    /\ text2' = WriteLedger(result.ledger, settings)
    /\ pc' = "done"
    /\ UNCHANGED <<input, written, settings, round, rest, items, result, doc, text1>>

Next == ParseItem \/ ParseEnd \/ ParsePanic \/ Serialize \/ Reserialize

Spec == Init /\ [][Next]_vars

----------------------------------------------------------------------------
(* Properties of the run *)

AtParsed(n) == pc = "parsed" /\ round = n

\* C1: round trip. For every Document returned by a successful parse,
\* parsing its serialization under the default settings succeeds and yields
\* a Document equal to it: same items, same fields, same metadata dates and
\* tags.
RoundTrip ==
    (AtParsed(2) /\ settings = SettingsDefault)
        => (result.k = "Ok" /\ result.ledger = doc)

\* C2: idempotent re-serialization. For every parsed Document and every
\* configuration, parsing the serialization succeeds and serializing the
\* result under the same configuration gives the same text again.
IdempotentReserialization ==
    /\ AtParsed(2) => result.k = "Ok"
    /\ pc = "done" => text2 = text1

\* C3: no panic escapes the API. On every input Ledger::from_str returns a
\* Document or an error value; the Incomplete outcome of a sub-parser is
\* never turned into a panic.
NoPanicEscapes == pc = "parsed" => result.k \in {"Ok", "Err"}

\* C4: all-or-nothing parse. A Document is returned only if the item loop
\* consumed the entire input; whenever text remains the result is an error
\* value and no Document.
AllOrNothing ==
    pc = "parsed" =>
        /\ result.k = "Ok" => (rest = <<>> /\ result.ledger = items)
        /\ rest # <<>> => (result.k = "Err" /\ result.ledger = <<>>)

Elided(p) == p.amount = None /\ p.balance = None

ElidedPostings(t) == {i \in 1..Len(t.postings) : Elided(t.postings[i])}

Transactions(ledger) ==
    {ledger[i].v : i \in {j \in 1..Len(ledger) : ledger[j].type = "Transaction"}}

\* C5: elided-posting invariant. Every Transaction of a successfully parsed
\* Document has at most one posting with neither amount nor balance; a text
\* with two such postings in one transaction makes the parse fail.
AtMostOneElidedPosting ==
    (pc = "parsed" /\ result.k = "Ok") =>
        \A t \in Transactions(result.ledger) : Cardinality(ElidedPostings(t)) <= 1

\* C6: lone elided posting. No successfully parsed Document contains a
\* transaction whose only posting has neither amount nor balance.
NoLoneElidedPosting ==
    (pc = "parsed" /\ result.k = "Ok") =>
        \A t \in Transactions(result.ledger) :
            Len(t.postings) = 1 => ~Elided(t.postings[1])

NoPostingMetadata == [date |-> None, effective_date |-> None, tags |-> <<>>]

ScenarioPostingValue ==
    [account |-> <<"T", "E", "S", "T", ":", "A", "B", "C", " ", "1", "2", "3">>, reality |-> "Real",
     amount |-> Some([amount |-> Amount([neg |-> FALSE, mant |-> 120, scale |-> 2],
                                        <<"$">>, "Left"),
                      lot_price |-> None, price |-> None]),
     balance |-> None, status |-> None, comment |-> None,
     metadata |-> NoPostingMetadata]

ScenarioTransaction ==
    [comment |-> None, date |-> [y |-> 2018, m |-> 10, d |-> 1],
     effective_date |-> Some([y |-> 2018, m |-> 10, d |-> 14]),
     status |-> Some("Pending"), code |-> Some(<<"1", "2", "3">>),
     description |-> Some(<<"M", "a", "r", "e", "k", " ", "O", "g", "a", "r", "e", "k">>),
     posting_metadata |-> NoPostingMetadata,
     postings |-> <<ScenarioPostingValue, ScenarioPostingValue>>]

ScenarioSerialized == input = ScenarioText /\ round = 2 /\ settings = SettingsDefault

\* C7, as the text states it: the scenario text (posting lines written
\* after one space) parses to the one Transaction described, and
\* serializing it under the default configuration gives exactly the input
\* text (followed, in a Ledger, by the line ending of the item).
ScenarioSameText ==
    ScenarioSerialized =>
        /\ doc = <<Item("Transaction", ScenarioTransaction)>>
        /\ text1 = input \o settings.eol

\* C7, amended: the scenario text parses to the one Transaction described,
\* and serializing it under the default configuration gives the header line
\* and the two posting lines, each posting line indented by the two spaces
\* of the default indent.
ScenarioDefaultIndent ==
    ScenarioSerialized =>
        /\ doc = <<Item("Transaction", ScenarioTransaction)>>
        /\ text1 = ScenarioWith(<<" ", " ">>) \o settings.eol

\* C7 witness: the scenario text has been parsed and serialized under the
\* default configuration.
ScenarioWritten == ScenarioSerialized /\ Len(text1) > Len(ScenarioHeader)

\* the lines of a text that ends each line with \n
LinesOf(text) ==
    IF Len(text) = 0 THEN <<>>
    ELSE IF text[Len(text)] = "\n" THEN SplitLines(Take(text, Len(text) - 1))
    ELSE SplitLines(text)

\* The top-level constructs of a text in order, as the grammar names them:
\* a blank line, a standalone comment line, a transaction block (header,
\* postings, and the `;` lines directly following them), a P line, an
\* include line.
RECURSIVE ConstructsOf(_, _)
ConstructsOf(lines, inTx) ==
    IF Len(lines) = 0 THEN <<>>
    ELSE With(Drop(lines[1], SpanEnd(lines[1], 1, {" ", "\t"})), LAMBDA body:
         IF Len(body) = 0
         THEN <<"EmptyLine">> \o ConstructsOf(Tail(lines), FALSE)
         ELSE IF inTx /\ body[1] = ";" THEN ConstructsOf(Tail(lines), TRUE)
         ELSE IF body[1] \in LineCommentChars
         THEN <<"LineComment">> \o ConstructsOf(Tail(lines), FALSE)
         ELSE IF lines[1][1] \in Digits
         THEN <<"Transaction">> \o ConstructsOf(Tail(lines), TRUE)
         ELSE IF inTx /\ lines[1][1] = " " THEN ConstructsOf(Tail(lines), TRUE)
         ELSE IF lines[1][1] = "P"
         THEN <<"CommodityPrice">> \o ConstructsOf(Tail(lines), FALSE)
         ELSE IF HasPrefix(body, <<"i", "n", "c", "l", "u", "d", "e">>)
         THEN <<"Include">> \o ConstructsOf(Tail(lines), FALSE)
         ELSE <<"Unknown">> \o ConstructsOf(Tail(lines), FALSE))

ItemTypes(ledger) == [i \in 1..Len(ledger) |-> ledger[i].type]

\* C8: item order and count. A successful parse produces exactly one Item
\* per top-level construct of the text, in the order of the text: one
\* EmptyLine per blank line, one LineComment per standalone comment line,
\* one Transaction per transaction block, one CommodityPrice per P line,
\* one Include per include line; nothing is reordered, merged or dropped.
ItemOrderAndCount ==
    (AtParsed(1) /\ result.k = "Ok")
        => ItemTypes(result.ledger) = ConstructsOf(LinesOf(input), FALSE)

----------------------------------------------------------------------------
(* parse_date and parse_datetime applied to date texts *)

Years == {<<"2", "0", "1", "7">>, <<"2", "0", "2", "0">>, <<"1", "9", "0", "0">>}
Months == {<<"0", "0">>, <<"0", "1">>, <<"0", "2">>, <<"0", "4">>, <<"1", "2">>, <<"1", "3">>}
Days == {<<"0", "0">>, <<"0", "1">>, <<"2", "8">>, <<"2", "9">>, <<"3", "0">>, <<"3", "1">>, <<"3", "2">>}
DateSeparators == {<<"-", "-">>, <<"/", "/">>, <<".", "-">>}
Times ==
    {<<>>, <<" ", "1", "7", ":", "1", "5", ":", "2", "3">>, <<" ", "0", "0", ":", "0", "0", ":", "0", "0">>, <<" ", "2", "5", ":", "1", "1", ":", "2", "2">>, <<" ", "2", "3", ":", "6", "0", ":", "0", "0">>,
     <<" ", "2", "3", ":", "5", "9", ":", "6", "0">>}

\* texts that do not match the date syntax, or match it as a date but not
\* as a date and time
MalformedDates ==
    {<<>>, <<"2", "0", "1", "7", "-", "3", "-", "2", "4">>, <<"1", "7", "-", "0", "3", "-", "2", "4">>, <<"2", "0", "1", "7", "+", "0", "3", "+", "2", "4">>, <<"2", "0", "1", "7", "-", "0", "3", "-", "2">>,
     <<"x", "2", "0", "1", "7", "-", "0", "3", "-", "2", "4">>}

MalformedTimes == {<<" ", "1", ":", "1", "5", ":", "2", "3">>, <<"T", "1", "7", ":", "1", "5", ":", "2", "3">>, <<" ", "1", "7", ":", "1", "5">>, <<" ", "1", "7", "-", "1", "5", "-", "2", "3">>}

DateFields(y, m, d, sep, time) ==
    [form |-> "Date", y |-> y, m |-> m, d |-> d, sep |-> sep, time |-> time]

InitDate ==
    /\ \/ \E y \in Years, m \in Months, d \in Days, sep \in DateSeparators,
             time \in Times \cup MalformedTimes :
             /\ written = DateFields(y, m, d, sep, time)
             /\ input = y \o <<sep[1]>> \o m \o <<sep[2]>> \o d \o time
       \/ \E t \in MalformedDates :
             /\ written = [form |-> "Malformed", y |-> <<>>, m |-> <<>>,
                           d |-> <<>>, sep |-> <<>>, time |-> <<>>]
             /\ input = t
    /\ settings = SettingsDefault
    /\ pc = "start"
    /\ round = 1
    /\ rest = <<>>
    /\ items = <<>>
    /\ result = Pending
    /\ doc = <<>>
    /\ text1 = <<>>
    /\ text2 = <<>>

ParseDate ==
    /\ pc = "start"
    /\ result' = parse_date(input)
    /\ pc' = "parse_date"
    /\ UNCHANGED <<input, written, settings, round, rest, items, doc, text1, text2>>

ParseDatetime ==
    /\ pc = "start"
    /\ result' = parse_datetime(input)
    /\ pc' = "parse_datetime"
    /\ UNCHANGED <<input, written, settings, round, rest, items, doc, text1, text2>>

NextDate == ParseDate \/ ParseDatetime

SpecDate == InitDate /\ [][NextDate]_vars

----------------------------------------------------------------------------
(* parse_amount applied to amount texts *)

Signs == {<<>>, <<"-">>, <<"-", " ">>}
CommodityTexts == {<<"$">>, <<"U", "S", "D">>, <<"\"", "A", " ", "1", "\"">>}
Blanks == {<<>>, <<" ">>}
QuantityTexts == {<<"1">>, <<"-", "1">>, <<"1", ".", "2", "0">>, <<"0">>, <<"1", ",", "0", "0", "0">>, <<".", "5">>}

AmountFields(form, neg, name, q) == [form |-> form, neg |-> neg, name |-> name, q |-> q]

InitAmount ==
    /\ \/ \E neg \in Signs, name \in CommodityTexts, sp \in Blanks, q \in QuantityTexts :
             /\ written = AmountFields("CommodityFirst", neg, name, q)
             /\ input = neg \o name \o sp \o q
       \/ \E q \in QuantityTexts, sp \in Blanks, name \in CommodityTexts :
             /\ written = AmountFields("QuantityFirst", <<>>, name, q)
             /\ input = q \o sp \o name
       \/ \E neg \in Signs, name \in CommodityTexts :
             /\ written = AmountFields("CommodityOnly", neg, name, <<>>)
             /\ input = neg \o name
       \/ \E q \in QuantityTexts :
             /\ written = AmountFields("QuantityOnly", <<>>, <<>>, q)
             /\ input = q
    /\ settings = SettingsDefault
    /\ pc = "start"
    /\ round = 1
    /\ rest = <<>>
    /\ items = <<>>
    /\ result = Pending
    /\ doc = <<>>
    /\ text1 = <<>>
    /\ text2 = <<>>

ParseAmount ==
    /\ pc = "start"
    /\ result' = parse_amount(input)
    /\ pc' = "parse_amount"
    /\ UNCHANGED <<input, written, settings, round, rest, items, doc, text1, text2>>

NextAmount == ParseAmount

SpecAmount == InitAmount /\ [][NextAmount]_vars

\* the Amount parse_amount returned is written by the serializer and the
\* written text is parsed again
WriteAmountBack ==
    /\ pc = "parse_amount"
    /\ result.k = "Ok"
    /\ doc' = result.v
    /\ text1' = WriteAmount(result.v)
    /\ result' = parse_amount(WriteAmount(result.v))
    /\ pc' = "reparsed"
    /\ UNCHANGED <<input, written, settings, round, rest, items, text2>>

NextAmountRoundTrip == ParseAmount \/ WriteAmountBack

SpecAmountRoundTrip == InitAmount /\ [][NextAmountRoundTrip]_vars

----------------------------------------------------------------------------
(* Properties of parse_date and parse_datetime *)

MonthLengths == <<31, 28, 31, 30, 31, 30, 31, 31, 30, 31, 30, 31>>

\* the Gregorian calendar has day d of month m in year y
RealDate(y, m, d) ==
    /\ m \in 1..12
    /\ d >= 1
    /\ d <= IF m = 2 /\ ((y % 4 = 0 /\ y % 100 # 0) \/ y % 400 = 0)
            THEN 29 ELSE MonthLengths[m]

TwoDigits(text, i) == 10 * DigitVal(text[i]) + DigitVal(text[i + 1])

WrittenDateIsReal ==
    RealDate(1000 * DigitVal(written.y[1]) + 100 * DigitVal(written.y[2])
                 + TwoDigits(written.y, 3),
             TwoDigits(written.m, 1), TwoDigits(written.d, 1))

WrittenTimeIsWellFormed == written.time \in Times \ {<<>>}

\* a time text is blank hh:mm:ss
WrittenTimeIsReal ==
    /\ TwoDigits(written.time, 2) < 24
    /\ TwoDigits(written.time, 5) < 60
    /\ TwoDigits(written.time, 8) < 60

CalendarError == Error(input, "MapOpt")

\* C9: calendar validity. A text that matches the date syntax (and, for
\* parse_datetime, the time syntax) but whose fields are no real calendar
\* date or time makes parse_date / parse_datetime fail with the
\* calendar-validity error (MapOpt) at the start of the date text; a text
\* that does not match the syntax fails with an error of another kind; a
\* text that matches and is real is accepted.
CalendarValidity ==
    /\ (pc = "parse_date" /\ written.form = "Date") =>
          IF WrittenDateIsReal THEN result.k = "Ok" ELSE result = CalendarError
    /\ (pc = "parse_date" /\ written.form = "Malformed") =>
          (result.k = "Error" /\ result.v # "MapOpt")
    /\ (pc = "parse_datetime" /\ written.form = "Date" /\ WrittenTimeIsWellFormed) =>
          IF WrittenDateIsReal /\ WrittenTimeIsReal
          THEN result.k = "Ok" ELSE result = CalendarError
    /\ (pc = "parse_datetime"
          /\ (written.form = "Malformed" \/ ~WrittenTimeIsWellFormed)) =>
          (result.k = "Error" /\ result.v # "MapOpt")

\* C9 witness: parse_datetime has refused 30 February followed by a real
\* time with the calendar-validity error at the start of the text.
FebruaryThirtiethRefused ==
    /\ pc = "parse_datetime"
    /\ written.form = "Date"
    /\ written.m = <<"0", "2">>
    /\ written.d = <<"3", "0">>
    /\ WrittenTimeIsWellFormed
    /\ WrittenTimeIsReal
    /\ result = CalendarError

----------------------------------------------------------------------------
(* Properties of parse_amount *)

\* the decimal value a quantity text denotes
QuantityValue(q) ==
    CASE q = <<"1">> -> [neg |-> FALSE, mant |-> 1, scale |-> 0]
      [] q = <<"-", "1">> -> [neg |-> TRUE, mant |-> 1, scale |-> 0]
      [] q = <<"1", ".", "2", "0">> -> [neg |-> FALSE, mant |-> 120, scale |-> 2]
      [] q = <<"0">> -> [neg |-> FALSE, mant |-> 0, scale |-> 0]
      [] q = <<"1", ",", "0", "0", "0">> -> [neg |-> FALSE, mant |-> 1000, scale |-> 0]
      [] q = <<".", "5">> -> [neg |-> FALSE, mant |-> 5, scale |-> 1]

\* two Decimals are the same number
SameNumber(a, b) ==
    /\ a.mant * Pow10(b.scale) = b.mant * Pow10(a.scale)
    /\ a.mant # 0 => a.neg = b.neg

Negated(a) == [neg |-> ~a.neg, mant |-> a.mant, scale |-> a.scale]

\* the commodity name a commodity text denotes: the text, or the text
\* between the double quotes
WrittenName ==
    IF written.name[1] = "\"" THEN SubSeq(written.name, 2, Len(written.name) - 1)
    ELSE written.name

\* C10: amount orientation and sign. A text that begins (after an optional
\* `-` and blanks) with a commodity is accepted with position Left and the
\* written quantity, negated exactly when the leading `-` is present; a text
\* that begins with a quantity is accepted with position Right and the
\* quantity as written. The commodity-first alternative is tried first: when
\* neither matches, the failure reported is that of the quantity-first
\* alternative, at the start of a text that begins with a commodity.
AmountOrientationAndSign ==
    pc = "parse_amount" =>
        CASE written.form = "CommodityFirst" ->
               /\ result.k = "Ok"
               /\ result.rest = <<>>
               /\ result.v.commodity = [name |-> WrittenName, position |-> "Left"]
               /\ SameNumber(result.v.quantity,
                             IF written.neg # <<>> THEN Negated(QuantityValue(written.q))
                             ELSE QuantityValue(written.q))
          [] written.form = "QuantityFirst" ->
               /\ result.k = "Ok"
               /\ result.rest = <<>>
               /\ result.v.commodity = [name |-> WrittenName, position |-> "Right"]
               /\ SameNumber(result.v.quantity, QuantityValue(written.q))
          [] written.form = "CommodityOnly" ->
               /\ result.k = "Error"
               /\ result.rest = input
          [] written.form = "QuantityOnly" ->
               /\ result.k = "Error"
               /\ result.rest = <<>>

\* C10 witness: parse_amount has accepted a text with a leading `-`, a
\* commodity and a positive quantity, as a negative Left amount.
NegativeLeftAmountParsed ==
    /\ pc = "parse_amount"
    /\ written.form = "CommodityFirst"
    /\ written.neg # <<>>
    /\ written.q = <<"1", ".", "2", "0">>
    /\ result.k = "Ok"
    /\ result.v.quantity = [neg |-> TRUE, mant |-> 120, scale |-> 2]
    /\ result.v.commodity.position = "Left"

----------------------------------------------------------------------------
(* Properties of writing an Amount and parsing it again *)

WrittenAmountForm(a) ==
    IF a.commodity.position = "Left"
    THEN a.commodity.name \o DecimalToString(a.quantity)
    ELSE DecimalToString(a.quantity) \o <<" ">> \o a.commodity.name

\* C11: amount round trip. For every Amount parse_amount produces, the
\* serializer writes a Left amount as name then quantity and a Right amount
\* as quantity, one space, name, and parse_amount applied to the written
\* text consumes all of it and returns the same Amount.
AmountRoundTrip ==
    pc = "reparsed" =>
        /\ text1 = WrittenAmountForm(doc)
        /\ result.k = "Ok"
        /\ result.rest = <<>>
        /\ result.v = doc

----------------------------------------------------------------------------
(* parse_account applied to account texts, and the posting serializer
   applied to the account it returns *)

Opens == {<<>>, <<"[">>, <<"(">>}
Closes == {<<>>, <<"]">>, <<")">>}
AccountNames ==
    {<<>>, <<"a">>, <<"A", ":", "B", " ", "c">>, <<"a", EuroSign>>,
     <<"[", "x", "]">>, <<"(", "x", ")">>, <<"x", "]">>}
AccountTerminators ==
    {<<>>, <<" ", " ", "$", "1">>, <<"\t", "$", "1">>, <<"\n">>, <<"\r", "\n">>}

\* a posting that has an account and nothing else
PostingWith(account, reality, comment) ==
    [account |-> account, reality |-> reality, amount |-> None,
     balance |-> None, status |-> None, comment |-> comment,
     metadata |-> NoPostingMetadata]

InitAccount ==
    /\ \E open \in Opens, name \in AccountNames, close \in Closes,
          term \in AccountTerminators :
          /\ written = [raw |-> open \o name \o close, term |-> term]
          /\ input = open \o name \o close \o term
    /\ settings = SettingsDefault
    /\ pc = "start"
    /\ round = 1
    /\ rest = <<>>
    /\ items = <<>>
    /\ result = Pending
    /\ doc = <<>>
    /\ text1 = <<>>
    /\ text2 = <<>>

ParseAccount ==
    /\ pc = "start"
    /\ result' = parse_account(input)
    /\ pc' = "parse_account"
    /\ UNCHANGED <<input, written, settings, round, rest, items, doc, text1, text2>>

\* the posting serializer writes the (account, reality) returned, and the
\* written account is parsed where the raw name stood
WriteAccountBack ==
    /\ pc = "parse_account"
    /\ result.k = "Ok"
    /\ doc' = result.v
    /\ rest' = result.rest
    /\ text1' = WritePosting(PostingWith(result.v[1], result.v[2], None), settings)
    /\ result' = parse_account(
           WritePosting(PostingWith(result.v[1], result.v[2], None), settings)
           \o result.rest)
    /\ pc' = "reparsed"
    /\ UNCHANGED <<input, written, settings, round, items, text2>>

NextAccount == ParseAccount \/ WriteAccountBack

SpecAccount == InitAccount /\ [][NextAccount]_vars

StartsAndEnds(raw, open, close) ==
    raw # <<>> /\ raw[1] = open /\ raw[Len(raw)] = close

\* what the claim says parse_account returns for a raw name
ExpectedAccount(raw) ==
    IF StartsAndEnds(raw, "[", "]")
    THEN <<SubSeq(raw, 2, Len(raw) - 1), "BalancedVirtual">>
    ELSE IF StartsAndEnds(raw, "(", ")")
    THEN <<SubSeq(raw, 2, Len(raw) - 1), "UnbalancedVirtual">>
    ELSE <<raw, "Real">>

\* C12: account reality. parse_account strips exactly one enclosing bracket
\* pair and sets the reality accordingly, only when the raw name starts and
\* ends with the matching bracket, and returns any other raw name unchanged
\* as Real; the posting serializer writes the account in the same bracket
\* form, and parsing the written account gives the same account and reality.
AccountRealityRoundTrip ==
    /\ (pc = "parse_account" /\ result.k = "Ok") =>
           (result.v = ExpectedAccount(written.raw) /\ result.rest = written.term)
    /\ pc = "reparsed" =>
           /\ text1 = written.raw
           /\ result.k = "Ok"
           /\ result.v = doc
           /\ result.rest = rest

\* C12 witness: a name in square brackets inside parentheses has been parsed
\* as UnbalancedVirtual, written and parsed again.
NestedBracketsReparsed ==
    /\ pc = "reparsed"
    /\ doc = <<<<"[", "x", "]">>, "UnbalancedVirtual">>
    /\ result.k = "Ok"

----------------------------------------------------------------------------
(* The conversion of the parsed item list to the Ledger of transactions
   and commodity prices *)

MaxItems == 3

ScenarioPrice ==
    [datetime |-> [y |-> 2017, m |-> 11, d |-> 12, h |-> 12, mi |-> 0, s |-> 0],
     commodity_name |-> <<"m">>,
     amount |-> Amount([neg |-> FALSE, mant |-> 5, scale |-> 0], <<"P", "L", "N">>, "Right")]

ItemAlphabet ==
    << Item("EmptyLine", <<>>),
       Item("LineComment", <<"c">>),
       Item("LineComment", <<"d">>),
       Item("Transaction", ScenarioTransaction),
       Item("Transaction", [ScenarioTransaction EXCEPT !.comment = Some(<<"t">>)]),
       Item("CommodityPrice", ScenarioPrice),
       Item("Include", <<"f">>) >>

\* the lists of at most n positions of ItemAlphabet
RECURSIVE ItemLists(_)
ItemLists(n) ==
    IF n = 0 THEN {<<>>}
    ELSE ItemLists(n - 1)
         \cup {Append(l, i) : l \in {k \in ItemLists(n - 1) : Len(k) = n - 1},
                              i \in 1..Len(ItemAlphabet)}

ItemsAt(l) == [j \in 1..Len(l) |-> ItemAlphabet[l[j]]]

\* the body of the loop over the items: acc holds transactions,
\* commodity_prices and current_comment
\* a loop body in which an Include item clears the pending comment
ConvertItemStepIncludeClears(acc, item) ==
    CASE item.type = "EmptyLine" -> [acc EXCEPT !.current_comment = None]
      [] item.type = "LineComment" ->
           [acc EXCEPT !.current_comment =
               IF IsSome(acc.current_comment)
               THEN Some(acc.current_comment[1] \o <<"\n">> \o item.v)
               ELSE Some(item.v)]
      [] item.type = "Transaction" ->
           [acc EXCEPT
               !.transactions = Append(@,
                   IF IsSome(acc.current_comment)
                   THEN [item.v EXCEPT !.comment =
                            IF IsSome(item.v.comment)
                            THEN Some(acc.current_comment[1] \o <<"\n">> \o item.v.comment[1])
                            ELSE Some(acc.current_comment[1])]
                   ELSE item.v),
               !.current_comment = None]
      [] item.type = "CommodityPrice" ->
           [acc EXCEPT !.commodity_prices = Append(@, item.v),
                       !.current_comment = None]
      [] item.type = "Include" -> [acc EXCEPT !.current_comment = None]

ConvertItemStep(acc, item) ==
    CASE item.type = "EmptyLine" -> [acc EXCEPT !.current_comment = None]
      [] item.type = "LineComment" ->
           [acc EXCEPT !.current_comment =
               IF IsSome(acc.current_comment)
               THEN Some(acc.current_comment[1] \o <<"\n">> \o item.v)
               ELSE Some(item.v)]
      [] item.type = "Transaction" ->
           [acc EXCEPT
               !.transactions = Append(@,
                   IF IsSome(acc.current_comment)
                   THEN [item.v EXCEPT !.comment =
                            IF IsSome(item.v.comment)
                            THEN Some(acc.current_comment[1] \o <<"\n">> \o item.v.comment[1])
                            ELSE Some(acc.current_comment[1])]
                   ELSE item.v),
               !.current_comment = None]
      [] item.type = "CommodityPrice" ->
           [acc EXCEPT !.commodity_prices = Append(@, item.v),
                       !.current_comment = None]
      [] item.type = "Include" -> acc

InitConvert ==
    /\ \E l \in ItemLists(MaxItems) : input = ItemsAt(l) /\ written = l
    /\ settings = SettingsDefault
    /\ pc = "convert"
    /\ round = 1
    /\ rest = <<>>
    /\ items = <<>>
    /\ result = [transactions |-> <<>>, commodity_prices |-> <<>>,
                 current_comment |-> None]
    /\ doc = <<>>
    /\ text1 = <<>>
    /\ text2 = <<>>

ConvertItem ==
    /\ pc = "convert"
    /\ round <= Len(input)
    /\ result' = ConvertItemStep(result, input[round])
    /\ round' = round + 1
    /\ UNCHANGED <<input, written, settings, pc, rest, items, doc, text1, text2>>

ConvertEnd ==
    /\ pc = "convert"
    /\ round > Len(input)
    /\ doc' = [transactions |-> result.transactions,
               commodity_prices |-> result.commodity_prices]
    /\ pc' = "converted"
    /\ UNCHANGED <<input, written, settings, round, rest, items, result, text1, text2>>

NextConvert == ConvertItem \/ ConvertEnd

SpecConvert == InitConvert /\ [][NextConvert]_vars

\* the index at which the run of LineComment items that ends just before
\* item i starts (i itself when item i - 1 is no LineComment)
RECURSIVE RunStart(_, _)
RunStart(list, i) ==
    IF i > 1 /\ list[i - 1].type = "LineComment" THEN RunStart(list, i - 1) ELSE i

PrecedingComments(list, i) ==
    [j \in 1..(i - RunStart(list, i)) |-> list[RunStart(list, i) + j - 1].v]

RECURSIVE JoinLines(_)
JoinLines(texts) ==
    IF Len(texts) = 0 THEN <<>>
    ELSE IF Len(texts) = 1 THEN texts[1]
    ELSE texts[1] \o <<"\n">> \o JoinLines(Tail(texts))

OwnComment(list, i) ==
    IF IsSome(list[i].v.comment) THEN <<list[i].v.comment[1]>> ELSE <<>>

ExpectedComment(list, i) ==
    IF PrecedingComments(list, i) = <<>> THEN list[i].v.comment
    ELSE Some(JoinLines(PrecedingComments(list, i) \o OwnComment(list, i)))

TransactionIndexes(list) ==
    SelectSeq([i \in 1..Len(list) |-> i], LAMBDA i : list[i].type = "Transaction")

\* C13: comment attachment. In the converted Ledger each transaction's
\* comment is the texts of the maximal run of LineComment items immediately
\* preceding it, then its own comment, joined with a newline; a transaction
\* not immediately preceded by a LineComment item keeps its own comment.
CommentAttachment ==
    pc = "converted" =>
        /\ Len(doc.transactions) = Len(TransactionIndexes(input))
        /\ \A k \in 1..Len(doc.transactions) :
               doc.transactions[k].comment =
                   ExpectedComment(input, TransactionIndexes(input)[k])

----------------------------------------------------------------------------
(* Properties of the error Ledger::from_str returns *)

\* the text the current round parses
ParsedText == IF round = 1 THEN input ELSE text1

IsSuffix(a, t) ==
    Len(a) <= Len(t) /\ SubSeq(t, Len(t) - Len(a) + 1, Len(t)) = a

\* C14: error location. When parsing fails because no top-level item
\* alternative matches at the front of the remaining input, the error
\* identifies that remaining input: a non-empty suffix of the text at whose
\* front parse_ledger_item fails, with no Document; for the text
\* "wrong input" it is the whole input, position 0.
ErrorLocation ==
    (pc = "parsed" /\ result.k = "Err") =>
        /\ result.ledger = <<>>
        /\ result.at # <<>>
        /\ IsSuffix(result.at, ParsedText)
        /\ parse_ledger_item(result.at).k = "Error"
        /\ input = WrongInputText => result.at = input

\* C14 witness: the text "wrong input" has been refused with an error at
\* the start of the input.
WrongInputRefused ==
    /\ pc = "parsed"
    /\ round = 1
    /\ input = WrongInputText
    /\ result.k = "Err"
    /\ result.at = WrongInputText

----------------------------------------------------------------------------
(* parse_include_file and parse_ledger_item applied to include lines *)

IncludeKeyword == <<"i", "n", "c", "l", "u", "d", "e">>
IncludeKeywords == {IncludeKeyword, <<"i", "n", "c", "l", "u", "d">>, <<"I", "n", "c", "l", "u", "d", "e">>}
IncludeLeading == {<<>>, <<" ">>}
IncludeBlanks == {<<>>, <<" ">>, <<" ", " ">>, <<"\t">>}
IncludePaths == {<<>>, <<"f">>, <<"a", " ", "b">>, <<"f", ".", "l">>}
IncludeTrailing == {<<>>, <<" ">>, <<"\t", " ">>}
IncludeEnds == {<<>>, <<"\n">>, <<"\r", "\n">>}
IncludeFollowing == {<<>>, <<"x">>}

InitInclude ==
    /\ \E lead \in IncludeLeading, kw \in IncludeKeywords, blanks \in IncludeBlanks,
          path \in IncludePaths, trail \in IncludeTrailing, end \in IncludeEnds,
          next \in IncludeFollowing :
          /\ end = <<>> => next = <<>>
          /\ written = [keyword |-> kw, blanks |-> blanks, path |-> path,
                        following |-> next]
          /\ input = lead \o kw \o blanks \o path \o trail \o end \o next
    /\ settings = SettingsDefault
    /\ pc = "start"
    /\ round = 1
    /\ rest = <<>>
    /\ items = <<>>
    /\ result = Pending
    /\ doc = <<>>
    /\ text1 = <<>>
    /\ text2 = <<>>

ParseIncludeFile ==
    /\ pc = "start"
    /\ result' = parse_include_file(input)
    /\ pc' = "parse_include_file"
    /\ UNCHANGED <<input, written, settings, round, rest, items, doc, text1, text2>>

ParseIncludeItem ==
    /\ pc = "start"
    /\ result' = parse_ledger_item(input)
    /\ pc' = "parse_ledger_item"
    /\ UNCHANGED <<input, written, settings, round, rest, items, doc, text1, text2>>

NextInclude == ParseIncludeFile \/ ParseIncludeItem

SpecInclude == InitInclude /\ [][NextInclude]_vars

\* the path of the Include the parser returned
IncludedPath ==
    IF pc = "parse_include_file" THEN result.v ELSE result.v.v

\* C15: include directive. The keyword include, at least one blank and a
\* path give Include(path) with the path trimmed of trailing whitespace;
\* when only whitespace follows the keyword on the line the alternative
\* fails, and no Include has an empty path.
IncludeDirective ==
    pc \in {"parse_include_file", "parse_ledger_item"} =>
        /\ (written.keyword = IncludeKeyword /\ written.blanks # <<>>
               /\ written.path # <<>>) =>
               /\ result.k = "Ok"
               /\ pc = "parse_ledger_item" => result.v.type = "Include"
               /\ IncludedPath = written.path
               /\ result.rest = written.following
        /\ (written.keyword = IncludeKeyword /\ written.path = <<>>) =>
               result.k # "Ok"
        /\ result.k = "Ok" => IncludedPath # <<>>

\* C15 witness: an include line with nothing but blanks after the keyword
\* has been refused.
BlankIncludeRefused ==
    /\ pc = "parse_ledger_item"
    /\ written.keyword = IncludeKeyword
    /\ written.blanks = <<" ", " ">>
    /\ written.path = <<>>
    /\ result.k = "Error"

----------------------------------------------------------------------------
(* The posting serializer applied to postings that have a comment *)

CommentLineLists ==
    { <<<<"c">>>>, <<<<>>>>, <<<<"a">>, <<"b">>>>, <<<<"a">>, <<>>, <<"b", " ", "c">>>>,
      <<<<"a">>, <<"b">>, <<"c">>>> }

CommentSettings ==
    { SerializerSettings(indent, eol, FormatYmd, FormatYmdHms, sameline) :
        indent \in {<<" ", " ">>, <<"\t">>}, eol \in {<<"\n">>, <<"\r", "\n">>},
        sameline \in BOOLEAN }

PostingAmounts ==
    { None,
      Some([amount |-> Amount([neg |-> FALSE, mant |-> 1, scale |-> 0], <<"$">>, "Left"),
            lot_price |-> None, price |-> None]) }

PostingTagLists == { <<>>, <<TagOf(<<"t">>, None)>> }

InitPostingComment ==
    /\ \E lines \in CommentLineLists, amount \in PostingAmounts,
          tags \in PostingTagLists, reality \in {"Real", "BalancedVirtual"} :
          /\ written = lines
          /\ doc = [PostingWith(<<"B">>, reality, Some(JoinLines(lines)))
                       EXCEPT !.amount = amount, !.metadata.tags = tags]
    /\ settings \in CommentSettings
    /\ input = <<>>
    /\ pc = "start"
    /\ round = 1
    /\ rest = <<>>
    /\ items = <<>>
    /\ result = Pending
    /\ text1 = <<>>
    /\ text2 = <<>>

\* the posting is written, and so is the same posting without its comment
WritePostingComment ==
    /\ pc = "start"
    /\ text1' = WritePosting(doc, settings)
    /\ text2' = WritePosting([doc EXCEPT !.comment = None], settings)
    /\ pc' = "written"
    /\ UNCHANGED <<input, written, settings, round, rest, items, result, doc>>

NextPostingComment == WritePostingComment

SpecPostingComment == InitPostingComment /\ [][NextPostingComment]_vars

RECURSIVE OwnLines(_, _)
OwnLines(lines, st) ==
    IF Len(lines) = 0 THEN <<>>
    ELSE st.eol \o st.indent \o <<";", " ">> \o lines[1] \o OwnLines(Tail(lines), st)

\* C16: posting comment placement. The comment is written on the line of
\* the posting, as indent, "; ", text, exactly when it has a single line and
\* the same-line flag is set; otherwise each comment line is written on a
\* new line as line ending, indent, "; ", text, in order.
PostingCommentPlacement ==
    pc = "written" =>
        text1 = text2 \o
            (IF Len(written) = 1 /\ settings.posting_comments_sameline
             THEN settings.indent \o <<";", " ">> \o written[1]
             ELSE OwnLines(written, settings))

\* C16 witness: a comment of three lines has been written under the
\* same-line flag.
ThreeLineCommentWritten ==
    /\ pc = "written"
    /\ Len(written) = 3
    /\ settings.posting_comments_sameline
    /\ Len(text1) > Len(text2)

----------------------------------------------------------------------------
(* take_until_hard_separator applied to short texts *)

MaxScan == 4

ScanChars == {"a", " ", "\t", "\n", EuroSign}

ScanTexts == UNION {[1..n -> ScanChars] : n \in 0..MaxScan}

InitScan ==
    /\ input \in ScanTexts
    /\ written = <<>>
    /\ settings = SettingsDefault
    /\ pc = "start"
    /\ round = 1
    /\ rest = <<>>
    /\ items = <<>>
    /\ result = Pending
    /\ doc = <<>>
    /\ text1 = <<>>
    /\ text2 = <<>>

Scan ==
    /\ pc = "start"
    /\ result' = take_until_hard_separator(input)
    /\ pc' = "scanned"
    /\ UNCHANGED <<input, written, settings, round, rest, items, doc, text1, text2>>

\* parse_account is the scanner's one caller
ScanAccount ==
    /\ pc = "start"
    /\ result' = parse_account(input)
    /\ pc' = "parse_account"
    /\ UNCHANGED <<input, written, settings, round, rest, items, doc, text1, text2>>

NextScan == Scan \/ ScanAccount

SpecScan == InitScan /\ [][NextScan]_vars

\* a separator starts at position i: a hard delimiter, or the first of two
\* consecutive spaces
SeparatorAt(s, i) ==
    \/ s[i] \in {"\t", "\r", "\n"}
    \/ s[i] = " " /\ i < Len(s) /\ s[i + 1] = " "

Separators(s) == {i \in 1..Len(s) : SeparatorAt(s, i)}

FirstSeparator(s) == CHOOSE i \in Separators(s) : \A j \in Separators(s) : i <= j

\* C17: account-boundary split position. For every input that contains a
\* separator the scanner returns as the name exactly the prefix before the
\* first separator, and the remaining input starts at the separator: at
\* the hard delimiter itself, or at the first of the two spaces.
SplitAtFirstSeparator ==
    (pc = "scanned" /\ Separators(input) # {}) =>
        /\ result.k = "Ok"
        /\ result.v = Take(input, FirstSeparator(input) - 1)
        /\ result.rest = Drop(input, FirstSeparator(input) - 1)

\* C18: account scanner without separator. For every non-empty input with
\* no hard delimiter and no two consecutive spaces the scanner succeeds,
\* returns the whole input as the name and leaves nothing.
WholeInputWithoutSeparator ==
    (pc = "scanned" /\ Separators(input) = {} /\ input # <<>>) =>
        /\ result.k = "Ok"
        /\ result.v = input
        /\ result.rest = <<>>

----------------------------------------------------------------------------
(* parse_metadata_comments applied to runs of comment lines *)

MaxLines == 3

Date2(d) == [y |-> 2018, m |-> 10, d |-> d]

\* comment lines with the metadata each gives when it stands alone
MetadataLines ==
    << [text |-> <<";", " ", "a">>, meta |-> Metadata(Some(<<"a">>), None, None, <<>>)],
       [text |-> <<";", " ", "b", " ", ":", "t", ":">>, meta |-> Metadata(Some(<<"b">>), None, None, <<TagOf(<<"t">>, None)>>)],
       [text |-> <<";", " ", "[", "2", "0", "1", "8", "-", "1", "0", "-", "0", "2", "]">>, meta |-> Metadata(None, Some(Date2(2)), None, <<>>)],
       [text |-> <<";", " ", "[", "=", "2", "0", "1", "8", "-", "1", "0", "-", "0", "3", "]">>, meta |-> Metadata(None, None, Some(Date2(3)), <<>>)],
       [text |-> <<";", " ", "[", "2", "0", "1", "8", "-", "1", "0", "-", "0", "4", "=", "2", "0", "1", "8", "-", "1", "0", "-", "0", "5", "]">>,
        meta |-> Metadata(None, Some(Date2(4)), Some(Date2(5)), <<>>)],
       [text |-> <<";", " ", "k", ":", " ", "v">>,
        meta |-> Metadata(None, None, None, <<TagOf(<<"k">>, Some(TagValue("String", <<"v">>)))>>)],
       [text |-> <<";">>, meta |-> MetadataDefault],
       [text |-> <<";", "c", " ", " ", "d">>, meta |-> Metadata(Some(<<"c", " ", " ", "d">>), None, None, <<>>)] >>

\* the lists of at most n positions of MetadataLines
RECURSIVE MetadataLineLists(_)
MetadataLineLists(n) ==
    IF n = 0 THEN {<<>>}
    ELSE MetadataLineLists(n - 1)
         \cup {Append(l, i) : l \in {k \in MetadataLineLists(n - 1) : Len(k) = n - 1},
                              i \in 1..Len(MetadataLines)}

\* the lines as they stand after a header or posting line: each on a new
\* line after two spaces, the last one ended by a line ending
RECURSIVE MetadataText(_)
MetadataText(l) ==
    IF Len(l) = 0 THEN <<"\n">>
    ELSE <<"\n", " ", " ">> \o MetadataLines[l[1]].text \o MetadataText(Tail(l))

InitMetadata ==
    /\ \E l \in MetadataLineLists(MaxLines) :
          written = l /\ input = MetadataText(l)
    /\ settings = SettingsDefault
    /\ pc = "start"
    /\ round = 1
    /\ rest = <<>>
    /\ items = <<>>
    /\ result = Pending
    /\ doc = <<>>
    /\ text1 = <<>>
    /\ text2 = <<>>

ParseMetadataComments ==
    /\ pc = "start"
    /\ result' = parse_metadata_comments(input)
    /\ pc' = "parse_metadata_comments"
    /\ UNCHANGED <<input, written, settings, round, rest, items, doc, text1, text2>>

\* the same lines after a posting line
ParsePostingWithMetadata ==
    /\ pc = "start"
    /\ result' = parse_posting(<<" ", "B", " ", " ", "$", "1">> \o input)
    /\ pc' = "parse_posting"
    /\ UNCHANGED <<input, written, settings, round, rest, items, doc, text1, text2>>

NextMetadata == ParseMetadataComments \/ ParsePostingWithMetadata

SpecMetadata == InitMetadata /\ [][NextMetadata]_vars

\* the non-empty comment texts of the lines, in line order
RECURSIVE CommentTexts(_)
CommentTexts(l) ==
    IF Len(l) = 0 THEN <<>>
    ELSE (IF IsSome(MetadataLines[l[1]].meta.comment)
             /\ MetadataLines[l[1]].meta.comment[1] # <<>>
          THEN <<MetadataLines[l[1]].meta.comment[1]>> ELSE <<>>)
         \o CommentTexts(Tail(l))

RECURSIVE TagsInOrder(_)
TagsInOrder(l) ==
    IF Len(l) = 0 THEN <<>>
    ELSE MetadataLines[l[1]].meta.tags \o TagsInOrder(Tail(l))

\* the value of a field in the last of the first i lines that gives it
RECURSIVE LastGiven(_, _, _)
LastGiven(l, i, field) ==
    IF i = 0 THEN None
    ELSE IF IsSome(MetadataLines[l[i]].meta[field]) THEN MetadataLines[l[i]].meta[field]
    ELSE LastGiven(l, i - 1, field)

AccumulatedMetadata(l) ==
    Metadata(IF CommentTexts(l) = <<>> THEN None ELSE Some(JoinLines(CommentTexts(l))),
             LastGiven(l, Len(l), "date"),
             LastGiven(l, Len(l), "effective_date"),
             TagsInOrder(l))

\* the metadata the parser returned, of the lines alone or of the posting
ParsedMetadata ==
    IF pc = "parse_metadata_comments" THEN result.v
    ELSE Metadata(result.v.comment, result.v.metadata.date,
                  result.v.metadata.effective_date, result.v.metadata.tags)

\* C19: metadata accumulation. Over the comment lines attached to one
\* header or posting the comment is the non-empty per-line texts joined with
\* a newline in line order, the tags are the per-line tags concatenated in
\* line order, and the date and the effective date are each the one of the
\* last line that gives it.
MetadataAccumulation ==
    pc \in {"parse_metadata_comments", "parse_posting"} =>
        /\ result.k = "Ok"
        /\ result.rest = <<>>
        /\ ParsedMetadata = AccumulatedMetadata(written)

\* C19 witness: a line that gives a date, then a line that gives both
\* dates, then a comment line have been folded into a posting.
DateOverriddenThenKept ==
    /\ pc = "parse_posting"
    /\ written = <<3, 5, 1>>
    /\ result.k = "Ok"
    /\ result.v.metadata.date = Some(Date2(4))

----------------------------------------------------------------------------
(* Properties of `;` lines that follow a posting after an empty line *)

PostingThenBlankThenComment ==
    { TxDate \o <<" ", "A">> \o NL \o <<" ", "B", " ", " ", "$", "1">> \o NL
          \o blank \o NL
          \o <<";", " ", "[", "2", "0", "1", "8", "-", "1", "0", "-", "0", "2", "]">> \o NL :
      blank \in {<<>>, <<" ", " ">>} }

\* C20: metadata lines must immediately follow. When an empty line
\* separates a posting from a following `;` line, the posting's metadata
\* does not include that line, and the Document holds the Transaction, then
\* the EmptyLine item, then the line as a LineComment item.
MetadataMustImmediatelyFollow ==
    (pc = "parsed" /\ round = 1 /\ input \in PostingThenBlankThenComment) =>
        /\ result.k = "Ok"
        /\ ItemTypes(result.ledger) = <<"Transaction", "EmptyLine", "LineComment">>
        /\ result.ledger[1].v.postings[1].metadata = NoPostingMetadata
        /\ result.ledger[1].v.postings[1].comment = None

\* the outcome on those texts: one Transaction whose posting took the date
\* of the `;` line
CommentAbsorbedAcrossBlankLine ==
    /\ pc = "parsed"
    /\ round = 1
    /\ input \in PostingThenBlankThenComment
    /\ result.k = "Ok"
    /\ ItemTypes(result.ledger) = <<"Transaction">>
    /\ result.ledger[1].v.postings[1].metadata.date = Some([y |-> 2018, m |-> 10, d |-> 2])

----------------------------------------------------------------------------
(* Properties of blank lines between two transactions *)

TransactionText ==
    TxDate \o <<" ", "A">> \o NL \o <<" ", "B", " ", " ", "$", "1">> \o NL

BlankLines == {NL, <<" ", " ">> \o NL}

\* the lists of at most n blank lines
RECURSIVE BlankLineLists(_)
BlankLineLists(n) ==
    IF n = 0 THEN {<<>>}
    ELSE BlankLineLists(n - 1)
         \cup {Append(l, b) : l \in BlankLineLists(n - 1), b \in BlankLines}

EmptyLineItems(k) == [i \in 1..k |-> "EmptyLine"]

\* C21: failed lookahead consumes nothing. When the blank lines after a
\* posting are not followed by a `;` line the posting consumes only its own
\* line ending, and k blank lines between two transactions give exactly k
\* EmptyLine items between the two Transaction items.
BlankLinesBetweenTransactions ==
    \A l \in BlankLineLists(MaxFragments - 2) :
        (pc = "parsed" /\ round = 1
            /\ input = TransactionText \o Concat(l) \o TransactionText) =>
            /\ result.k = "Ok"
            /\ ItemTypes(result.ledger) =
                   <<"Transaction">> \o EmptyLineItems(Len(l)) \o <<"Transaction">>
            /\ result.ledger[1].v = result.ledger[Len(l) + 2].v

\* the same for lines that hold no character at all
EmptyLinesBetweenTransactions ==
    \A l \in BlankLineLists(MaxFragments - 2) :
        (pc = "parsed" /\ round = 1 /\ (\A i \in 1..Len(l) : l[i] = NL)
            /\ input = TransactionText \o Concat(l) \o TransactionText) =>
            /\ result.k = "Ok"
            /\ ItemTypes(result.ledger) =
                   <<"Transaction">> \o EmptyLineItems(Len(l)) \o <<"Transaction">>
            /\ result.ledger[1].v = result.ledger[Len(l) + 2].v

\* an empty line between two transactions has given one EmptyLine item
OneEmptyLineKept ==
    /\ pc = "parsed"
    /\ round = 1
    /\ input = TransactionText \o NL \o TransactionText
    /\ result.k = "Ok"
    /\ ItemTypes(result.ledger) = <<"Transaction", "EmptyLine", "Transaction">>

----------------------------------------------------------------------------
(* parse_comment_with_tags applied to comment texts with a tag list *)

TextsBeforeList == {<<>>, <<"a">>, <<"x", " ", "a", ":", " ", "b">>, <<"a", " ", ":", "t", ":", "b", ".">>}
TextsAfterList == {<<>>, <<"b">>, <<"b", " ", ":", "u", ":">>, <<"c", ":", " ", "d">>}
TagLists == {<<>>, <<<<"t">>>>, <<<<"t", "1">>, <<"u">>>>}
Gaps == {<<>>, <<" ">>, <<" ", " ">>}

\* :name:name: for a non-empty list of names
RECURSIVE TagListText(_)
TagListText(names) ==
    IF Len(names) = 0 THEN <<":">>
    ELSE <<":">> \o names[1] \o TagListText(Tail(names))

InitCommentTags ==
    /\ \/ \E before \in TextsBeforeList, gap1 \in Gaps, names \in TagLists \ {<<>>},
             gap2 \in Gaps \ {<<>>}, after \in TextsAfterList, gap3 \in Gaps :
             /\ written = [before |-> before, names |-> names, after |-> after]
             /\ input = <<" ">> \o before \o gap1 \o TagListText(names) \o gap2
                            \o after \o gap3
       \/ \E before \in TextsBeforeList, gap3 \in Gaps :
             /\ written = [before |-> before, names |-> <<>>, after |-> <<>>]
             /\ input = <<" ">> \o before \o gap3
    /\ settings = SettingsDefault
    /\ pc = "start"
    /\ round = 1
    /\ rest = <<>>
    /\ items = <<>>
    /\ result = Pending
    /\ doc = <<>>
    /\ text1 = <<>>
    /\ text2 = <<>>

ParseCommentWithTags ==
    /\ pc = "start"
    /\ result' = parse_comment_with_tags(input)
    /\ pc' = "parse_comment_with_tags"
    /\ UNCHANGED <<input, written, settings, round, rest, items, doc, text1, text2>>

\* the same text as the comment of a posting line
ParsePostingWithComment ==
    /\ pc = "start"
    /\ result' = parse_posting(<<" ", "B", " ", " ", "$", "1", " ", ";">> \o input)
    /\ pc' = "parse_posting"
    /\ UNCHANGED <<input, written, settings, round, rest, items, doc, text1, text2>>

NextCommentTags == ParseCommentWithTags \/ ParsePostingWithComment

SpecCommentTags == InitCommentTags /\ [][NextCommentTags]_vars

RetainedComment(before, after) ==
    IF before # <<>> /\ after # <<>> THEN Some(before \o <<" ">> \o after)
    ELSE IF before # <<>> THEN Some(before)
    ELSE IF after # <<>> THEN Some(after)
    ELSE None

ValuelessTags(names) == [i \in 1..Len(names) |-> TagOf(names[i], None)]

ParsedComment == result.v.comment

ParsedTags ==
    IF pc = "parse_posting" THEN result.v.metadata.tags ELSE result.v.tags

\* C22: embedded tag list. The first colon-delimited list of alphanumeric
\* names in a free comment line is returned as tags without values, in
\* order; the retained comment is the text before the list and the text
\* after it joined by one space, or the non-empty one, or none; a colon that
\* does not start such a list stays in the comment text.
EmbeddedTagList ==
    pc \in {"parse_comment_with_tags", "parse_posting"} =>
        /\ result.k = "Ok"
        /\ ParsedTags = ValuelessTags(written.names)
        /\ ParsedComment = RetainedComment(written.before, written.after)

\* C22 witness: a list between a text with colons of its own and a further
\* text has been taken out of a posting comment.
TagListTakenOut ==
    /\ pc = "parse_posting"
    /\ written = [before |-> <<"a", " ", ":", "t", ":", "b", ".">>, names |-> <<<<"t", "1">>, <<"u">>>>, after |-> <<"b", " ", ":", "u", ":">>]
    /\ result.k = "Ok"
    /\ Len(result.v.metadata.tags) = 2

----------------------------------------------------------------------------
(* tags parsed, written by the serializer and parsed again *)

TagNameTexts == {<<"t">>, <<"n", "1">>}

\* a comment line that gives one tag of each kind the parser produces
TagTexts(name) ==
    { <<":">> \o name \o <<":">>,
      name \o <<":", " ", "x">>, name \o <<":", " ", "a", " ", "b">>,
      name \o <<":", ":", " ", "5">>, name \o <<":", ":", " ", "-", "3">>, name \o <<":", ":", " ", "0">>,
      name \o <<":", ":", " ", "1", ".", "5">>, name \o <<":", ":", " ", "[", "2", "0", "1", "8", "-", "1", "0", "-", "0", "2", "]">> }

TaggedText(place, line) ==
    IF place = "posting"
    THEN <<" ", "B", " ", " ", "$", "1">> \o NL \o <<" ", ";", " ">> \o line \o NL
    ELSE TxDate \o <<" ", "A">> \o NL \o <<" ", ";", " ">> \o line \o NL \o <<" ", "B", " ", " ", "$", "1">> \o NL

InitTag ==
    /\ written \in {"posting", "transaction"}
    /\ \E name \in TagNameTexts : \E line \in TagTexts(name) :
           input = TaggedText(written, line)
    /\ settings = SettingsDefault
    /\ pc = "start"
    /\ round = 1
    /\ rest = <<>>
    /\ items = <<>>
    /\ result = Pending
    /\ doc = <<>>
    /\ text1 = <<>>
    /\ text2 = <<>>

ParseTagged ==
    /\ pc = "start"
    /\ doc' = IF written = "posting" THEN parse_posting(input)
              ELSE parse_transaction(input)
    /\ pc' = "tag parsed"
    /\ UNCHANGED <<input, written, settings, round, rest, items, result, text1, text2>>

WriteTagged ==
    /\ pc = "tag parsed"
    /\ doc.k = "Ok"
    /\ text1' = IF written = "posting"
                THEN <<" ">> \o WritePosting(doc.v, settings) \o settings.eol
                ELSE WriteTransaction(doc.v, settings) \o settings.eol
    /\ pc' = "tag written"
    /\ UNCHANGED <<input, written, settings, round, rest, items, result, doc, text2>>

ReparseTagged ==
    /\ pc = "tag written"
    /\ result' = IF written = "posting" THEN parse_posting(text1)
                 ELSE parse_transaction(text1)
    /\ pc' = "tag reparsed"
    /\ UNCHANGED <<input, written, settings, round, rest, items, doc, text1, text2>>

NextTag == ParseTagged \/ WriteTagged \/ ReparseTagged

SpecTag == InitTag /\ [][NextTag]_vars

TagsOf(r) ==
    IF written = "posting" THEN r.v.metadata.tags ELSE r.v.posting_metadata.tags

CommentOf(r) == r.v.comment

\* C23: tag round trip. The text the serializer writes for a tag the parser
\* produced in transaction or posting metadata is parsed back into the same
\* tag (same name, same kind of value, same value) and not into a comment
\* or a tag of another kind.
TagRoundTrip ==
    pc = "tag reparsed" =>
        /\ result.k = "Ok"
        /\ Len(TagsOf(doc)) = 1
        /\ TagsOf(result) = TagsOf(doc)
        /\ CommentOf(result) = CommentOf(doc)

\* the same for the tags with a String value only
StringTagRoundTrip ==
    (pc = "tag reparsed" /\ Len(TagsOf(doc)) = 1 /\ IsSome(TagsOf(doc)[1].value)
        /\ TagsOf(doc)[1].value[1].kind = "String") =>
        /\ result.k = "Ok"
        /\ TagsOf(result) = TagsOf(doc)
        /\ CommentOf(result) = CommentOf(doc)

----------------------------------------------------------------------------
(* parse_posting_amount applied to amounts with lot price and price *)

\* amounts as written and as parsed
PostedAmounts ==
    { <<<<"$", "1">>, Amount([neg |-> FALSE, mant |-> 1, scale |-> 0], <<"$">>, "Left")>>,
      <<<<"1", " ", "U", "S", "D">>, Amount([neg |-> FALSE, mant |-> 1, scale |-> 0], <<"U", "S", "D">>, "Right")>> }
SuffixAmounts ==
    { <<<<"$", "2">>, Amount([neg |-> FALSE, mant |-> 2, scale |-> 0], <<"$">>, "Left")>>,
      <<<<"2", ".", "5", " ", "E", "U", "R">>, Amount([neg |-> FALSE, mant |-> 25, scale |-> 1], <<"E", "U", "R">>, "Right")>> }
PriceKinds == {"Unit", "Total"}

LotPriceText(kind, sp, a) ==
    IF kind = "Unit" THEN <<"{">> \o sp \o a \o sp \o <<"}">>
    ELSE <<"{", "{">> \o sp \o a \o sp \o <<"}", "}">>

PriceText(kind, sp, a) ==
    IF kind = "Unit" THEN <<"@">> \o sp \o a ELSE <<"@", "@">> \o sp \o a

\* the lot prices and the prices that can follow an amount: none, or one of
\* either kind, as <<text, value>>
LotPriceSuffixes ==
    {<< <<>>, None >>} \cup
    { <<gap \o LotPriceText(kind, sp, a[1]), Some(Price(kind, a[2]))>> :
        gap \in Blanks, kind \in PriceKinds, sp \in Blanks, a \in SuffixAmounts }
PriceSuffixes ==
    {<< <<>>, None >>} \cup
    { <<gap \o PriceText(kind, sp, a[1]), Some(Price(kind, a[2]))>> :
        gap \in Blanks, kind \in PriceKinds, sp \in Blanks, a \in SuffixAmounts }

InitPostingAmount ==
    /\ \E a \in PostedAmounts, lot \in LotPriceSuffixes, price \in PriceSuffixes :
          \/ /\ written = [amount |-> a[2], lot_price |-> lot[2], price |-> price[2],
                           order |-> "lot price, price"]
             /\ input = a[1] \o lot[1] \o price[1]
          \/ /\ IsSome(lot[2]) /\ IsSome(price[2])
             /\ written = [amount |-> a[2], lot_price |-> lot[2], price |-> price[2],
                           order |-> "price, lot price"]
             /\ input = a[1] \o price[1] \o lot[1]
    /\ settings = SettingsDefault
    /\ pc = "start"
    /\ round = 1
    /\ rest = <<>>
    /\ items = <<>>
    /\ result = Pending
    /\ doc = <<>>
    /\ text1 = <<>>
    /\ text2 = <<>>

ParsePostingAmount ==
    /\ pc = "start"
    /\ result' = parse_posting_amount(input)
    /\ pc' = "parse_posting_amount"
    /\ UNCHANGED <<input, written, settings, round, rest, items, doc, text1, text2>>

\* the same text as the amount of a posting line
ParsePostingWithAmount ==
    /\ pc = "start"
    /\ result' = parse_posting(<<" ", "B", " ", " ">> \o input \o NL)
    /\ pc' = "parse_posting"
    /\ UNCHANGED <<input, written, settings, round, rest, items, doc, text1, text2>>

NextPostingAmount == ParsePostingAmount \/ ParsePostingWithAmount

SpecPostingAmount == InitPostingAmount /\ [][NextPostingAmount]_vars

WrittenPostingAmount ==
    [amount |-> written.amount, lot_price |-> written.lot_price, price |-> written.price]

\* C24: lot price and price suffixes. {a} is a lot price Unit, {{a}} a lot
\* price Total, @ a a price Unit and @@ a a price Total; each is present
\* exactly when written, independently of the other; the only order taken is
\* lot price then price: in the other order the lot price is left unread and
\* the posting line is refused.
LotPriceAndPriceSuffixes ==
    /\ (pc = "parse_posting_amount" /\ written.order = "lot price, price") =>
           /\ result.k = "Ok"
           /\ result.rest = <<>>
           /\ result.v = WrittenPostingAmount
    /\ (pc = "parse_posting" /\ written.order = "lot price, price") =>
           /\ result.k = "Ok"
           /\ result.v.amount = Some(WrittenPostingAmount)
    /\ (pc = "parse_posting_amount" /\ written.order = "price, lot price") =>
           /\ result.k = "Ok"
           /\ result.rest # <<>>
           /\ result.v = [amount |-> written.amount, lot_price |-> None,
                          price |-> written.price]
    /\ (pc = "parse_posting" /\ written.order = "price, lot price") =>
           result.k # "Ok"

\* C24 witness: a posting with a total lot price and a total price has been
\* parsed.
BothTotalsParsed ==
    /\ pc = "parse_posting"
    /\ result.k = "Ok"
    /\ IsSome(result.v.amount)
    /\ IsSome(result.v.amount[1].lot_price)
    /\ IsSome(result.v.amount[1].price)
    /\ result.v.amount[1].lot_price[1].kind = "Total"
    /\ result.v.amount[1].price[1].kind = "Total"

----------------------------------------------------------------------------
(* parse_quantity applied to texts built of sign, integer part and fraction *)

\* integer parts as <<text, number of characters the grammar takes, value>>:
\* bare runs, grouped forms, and forms whose grouping breaks off
IntegerParts ==
    { << <<>>, 0, 0 >>, <<<<"7">>, 1, 7>>, <<<<"0">>, 1, 0>>, <<<<"1", "0", "0", "0">>, 4, 1000>>,
      <<<<"1", ",", "0", "0", "0">>, 5, 1000>>, <<<<"1", ",", "4", "5", "6", ",", "1", "3", "2">>, 9, 1456132>>,
      <<<<"1", ",", "0", "0">>, 1, 1>>, <<<<"1", "2", "3", "4", ",", "5", "6", "7">>, 4, 1234>>, <<<<"1", ",", "0", "0", "0", ",", "0", "0">>, 5, 1000>> }

\* fractions as <<text, number of digits, value of the digits>>; the single
\* dot is no fraction
FractionParts ==
    { << <<>>, 0, 0 >>, <<<<".", "5">>, 1, 5>>, <<<<".", "1", "4">>, 2, 14>>, <<<<".", "0", "5", "0">>, 3, 50>>,
      <<<<".">>, 0, 0>> }

QuantitySigns == {<<>>, <<"-">>}
QuantityEnds == {<<>>, <<" ", "U", "S", "D">>, <<"x">>}

InitQuantity ==
    /\ \E sign \in QuantitySigns, int \in IntegerParts, frac \in FractionParts,
          end \in QuantityEnds :
          /\ written = [sign |-> sign, int |-> int, frac |-> frac, end |-> end]
          /\ input = sign \o int[1] \o frac[1] \o end
    /\ settings = SettingsDefault
    /\ pc = "start"
    /\ round = 1
    /\ rest = <<>>
    /\ items = <<>>
    /\ result = Pending
    /\ doc = <<>>
    /\ text1 = <<>>
    /\ text2 = <<>>

ParseQuantity ==
    /\ pc = "start"
    /\ result' = parse_quantity(input)
    /\ pc' = "parse_quantity"
    /\ UNCHANGED <<input, written, settings, round, rest, items, doc, text1, text2>>

NextQuantity == ParseQuantity

SpecQuantity == InitQuantity /\ [][NextQuantity]_vars

\* the integer part has been taken whole, so that the fraction follows it
IntegerPartWhole(w) == w.int[2] = Len(w.int[1])

FractionDigits(w) == IF IntegerPartWhole(w) THEN w.frac[2] ELSE 0

\* the value of the text the grammar takes, commas removed, as an integer
\* of tenths, hundredths, ... according to the number of fraction digits
TakenValue(w) ==
    IF IntegerPartWhole(w) THEN w.int[3] * 10 ^ w.frac[2] + w.frac[3] ELSE w.int[3]

TakenLength(w) ==
    Len(w.sign) + w.int[2]
    + (IF IntegerPartWhole(w) /\ w.frac[2] > 0 THEN 1 + w.frac[2] ELSE 0)

\* C25: decimal quantity grammar. parse_quantity takes an optional "-", a
\* grouped integer or else a bare run of digits, and an optional "." with
\* one or more digits; the value is the decimal value of the text taken
\* with the commas removed; a text with no digit is rejected.
DecimalQuantityGrammar ==
    pc = "parse_quantity" =>
        IF written.int[2] + FractionDigits(written) = 0
        THEN result.k = "Error"
        ELSE /\ result.k = "Ok"
             /\ result.rest = Drop(input, TakenLength(written))
             /\ result.v.mant = TakenValue(written)
             /\ result.v.scale = FractionDigits(written)
             /\ result.v.neg = (written.sign = <<"-">> /\ TakenValue(written) # 0)

\* C25 witness: a negative grouped quantity with a fraction has been parsed.
GroupedQuantityParsed ==
    /\ pc = "parse_quantity"
    /\ input = <<"-", "1", ",", "4", "5", "6", ",", "1", "3", "2", ".", "1", "4">>
    /\ result.k = "Ok"
    /\ result.v = [neg |-> TRUE, mant |-> 145613214, scale |-> 2]

----------------------------------------------------------------------------
(* parse_payee applied to the descriptions of transaction headers *)

HeaderPrefixes == {TxDate, TxDate \o <<" ", "*">>, TxDate \o <<" ", "(", "1", ")">>}
DescriptionWords == {<<>>, <<"A">>, <<"A", " ", "B">>, <<"A", " ", " ", "B">>, <<"A", " ", ";", " ", "x">>, <<"A", ";", "x">>}
DescriptionSeparators == {<<" ", " ">>, <<"\t">>, <<" ", "\t">>, <<" ", " ", " ">>, <<" ">>}
HeaderComment == <<"c", " ", "d">>
HeaderPosting == <<" ", "B", " ", " ", "$", "1">> \o NL

InitDescription ==
    /\ \E prefix \in HeaderPrefixes, word \in DescriptionWords :
          \/ /\ written = [word |-> word, sep |-> <<>>, comment |-> None]
             /\ text1 = word \o NL \o HeaderPosting
             /\ input = prefix \o <<" ">> \o text1
          \/ \E sep \in DescriptionSeparators :
                /\ word # <<>>
                /\ written = [word |-> word, sep |-> sep, comment |-> Some(HeaderComment)]
                /\ text1 = word \o sep \o <<";", " ">> \o HeaderComment \o NL \o HeaderPosting
                /\ input = prefix \o <<" ">> \o text1
    /\ settings = SettingsDefault
    /\ pc = "start"
    /\ round = 1
    /\ rest = <<>>
    /\ items = <<>>
    /\ result = Pending
    /\ doc = <<>>
    /\ text2 = <<>>

ParsePayee ==
    /\ pc = "start"
    /\ result' = parse_payee(text1)
    /\ pc' = "parse_payee"
    /\ UNCHANGED <<input, written, settings, round, rest, items, doc, text1, text2>>

ParseTransactionHeader ==
    /\ pc = "start"
    /\ result' = parse_transaction(input)
    /\ pc' = "parse_transaction"
    /\ UNCHANGED <<input, written, settings, round, rest, items, doc, text1, text2>>

NextDescription == ParsePayee \/ ParseTransactionHeader

SpecDescription == InitDescription /\ [][NextDescription]_vars

IsHardSeparator(sep) == Len(sep) >= 2 \/ sep = <<"\t">>

HasHardSeparator(word) ==
    \E i \in 1..Len(word) :
        \/ word[i] = "\t"
        \/ i < Len(word) /\ word[i] = " " /\ word[i + 1] = " "

\* the description ends where the comment's separator begins
EndsAtSeparator(w) ==
    IsSome(w.comment) /\ IsHardSeparator(w.sep) /\ ~HasHardSeparator(w.word)

HeaderLine(w) ==
    IF IsSome(w.comment) THEN w.word \o w.sep \o <<";", " ">> \o w.comment[1]
    ELSE w.word

ExpectedDescription(w) == IF EndsAtSeparator(w) THEN w.word ELSE HeaderLine(w)

ExpectedHeaderComment(w) == IF EndsAtSeparator(w) THEN w.comment ELSE None

\* C26: description boundary. The description of a transaction header ends
\* at the first hard separator (two spaces or a tab) only when the separator
\* is followed, after blanks, by ";", whose text is then the transaction
\* comment; in every other case the description is the whole rest of the
\* header line.
DescriptionBoundary ==
    /\ pc = "parse_payee" =>
           /\ result.k = "Ok"
           /\ result.v = ExpectedDescription(written)
    /\ pc = "parse_transaction" =>
           /\ result.k = "Ok"
           /\ OptValue(result.v.description) = ExpectedDescription(written)
           /\ result.v.comment = ExpectedHeaderComment(written)

\* the same for the headers whose description is not empty
WrittenDescriptionBoundary ==
    written.word # <<>> => DescriptionBoundary

\* a description has been cut before the comment of its header
DescriptionCutAtComment ==
    /\ pc = "parse_transaction"
    /\ result.k = "Ok"
    /\ result.v.description = Some(<<"A", " ", "B">>)
    /\ result.v.comment = Some(HeaderComment)

----------------------------------------------------------------------------
(* the serializer applied to transactions with fields present and absent *)

\* what a transaction holds: which header fields, how many comment lines,
\* tags and postings
TransactionShapes ==
    [effective_date : BOOLEAN, status : {"", "Pending", "Cleared"}, code : BOOLEAN,
     description : {"none", "empty", "text"}, comment : 0..2, tags : 0..2,
     postings : 1..2]

ShapeTags == <<TagOf(<<"t">>, None), TagOf(<<"u">>, Some(TagValue("String", <<"x">>)))>>

ShapePostings ==
    << [PostingWith(<<"C">>, "Real", Some(<<"p", "c">>))
           EXCEPT !.metadata.tags = <<TagOf(<<"v">>, None)>>],
       [PostingWith(<<"B">>, "Real", None)
           EXCEPT !.amount = Some([amount |-> Amount([neg |-> FALSE, mant |-> 1, scale |-> 0],
                                                     <<"$">>, "Left"),
                                   lot_price |-> None, price |-> None])] >>

TransactionOf(w) ==
    [date |-> [y |-> 2018, m |-> 10, d |-> 1],
     effective_date |-> IF w.effective_date THEN Some([y |-> 2018, m |-> 10, d |-> 14])
                        ELSE None,
     status |-> IF w.status = "" THEN None ELSE Some(w.status),
     code |-> IF w.code THEN Some(<<"1">>) ELSE None,
     description |-> CASE w.description = "none" -> None
                       [] w.description = "empty" -> Some(<<>>)
                       [] w.description = "text" -> Some(<<"A", " ", "B">>),
     comment |-> CASE w.comment = 0 -> None
                   [] w.comment = 1 -> Some(<<"c">>)
                   [] w.comment = 2 -> Some(<<"c", "\n", "d">>),
     posting_metadata |-> [NoPostingMetadata EXCEPT !.tags = SubSeq(ShapeTags, 1, w.tags)],
     postings |-> SubSeq(ShapePostings, 1, w.postings)]

OrderSettings ==
    { SerializerSettings(<<" ", " ">>, <<"\n">>, FormatYmd, FormatYmdHms, TRUE),
      SerializerSettings(<<"\t">>, <<"\r", "\n">>, FormatYmd, FormatYmdHms, FALSE) }

InitWriteTransaction ==
    /\ written \in TransactionShapes
    /\ input = TransactionOf(written)
    /\ settings \in OrderSettings
    /\ pc = "start"
    /\ round = 1
    /\ rest = <<>>
    /\ items = <<>>
    /\ result = Pending
    /\ doc = <<>>
    /\ text1 = <<>>
    /\ text2 = <<>>

WriteTransactionText ==
    /\ pc = "start"
    /\ text1' = WriteTransaction(input, settings)
    /\ pc' = "transaction written"
    /\ UNCHANGED <<input, written, settings, round, rest, items, result, doc, text2>>

\* the same transaction as the only item of a ledger
WriteTransactionItem ==
    /\ pc = "start"
    /\ text1' = WriteLedger(<<Item("Transaction", input)>>, settings)
    /\ pc' = "ledger written"
    /\ UNCHANGED <<input, written, settings, round, rest, items, result, doc, text2>>

NextWriteTransaction == WriteTransactionText \/ WriteTransactionItem

SpecWriteTransaction == InitWriteTransaction /\ [][NextWriteTransaction]_vars

\* the header line of a transaction of shape w
ShapeHeader(w) ==
    <<"2", "0", "1", "8", "-", "1", "0", "-", "0", "1">>
    \o (IF w.effective_date THEN <<"=", "2", "0", "1", "8", "-", "1", "0", "-", "1", "4">> ELSE <<>>)
    \o (CASE w.status = "" -> <<>>
          [] w.status = "Pending" -> <<" ", "!">>
          [] w.status = "Cleared" -> <<" ", "*">>)
    \o (IF w.code THEN <<" ", "(", "1", ")">> ELSE <<>>)
    \o (IF w.description = "text" THEN <<" ", "A", " ", "B">> ELSE <<>>)

\* the lines after the header, without their indent: comment lines, then
\* tags, then postings; the comment of the first posting is on the line of
\* the posting, after its tag, when the same-line flag is set and on a line
\* of its own otherwise
ShapeLines(w, st) ==
    SubSeq(<<<<";", " ", "c">>, <<";", " ", "d">>>>, 1, w.comment)
    \o SubSeq(<<<<";", " ", "t">>, <<";", " ", "u", ":", " ", "x">>>>, 1, w.tags)
    \o (IF st.posting_comments_sameline
        THEN <<<<"C">> \o st.indent \o <<";", " ", "v">> \o st.indent \o <<";", " ", "p", "c">>>>
        ELSE <<<<"C">> \o st.indent \o <<";", " ", "v">>, <<";", " ", "p", "c">>>>)
    \o SubSeq(<<<<"B">> \o st.indent \o <<"$", "1">>>>, 1, w.postings - 1)

RECURSIVE IndentedLines(_, _)
IndentedLines(lines, st) ==
    IF Len(lines) = 0 THEN <<>>
    ELSE st.eol \o st.indent \o lines[1] \o IndentedLines(Tail(lines), st)

\* C27: serializer output order. A transaction is written as date,
\* =effective date, status, (code) and description, each only when present,
\* then every comment line on its own line, then every tag on its own line,
\* then every posting on its own line after one indent; within a posting the
\* tags come before the comment; an absent field contributes no text.
SerializerOutputOrder ==
    /\ pc = "transaction written" =>
           text1 = ShapeHeader(written) \o IndentedLines(ShapeLines(written, settings), settings)
    /\ pc = "ledger written" =>
           text1 = ShapeHeader(written) \o IndentedLines(ShapeLines(written, settings), settings)
                   \o settings.eol

\* C27 witness: a transaction with every header field, two comment lines,
\* two tags and two postings has been written.
FullTransactionWritten ==
    /\ pc = "transaction written"
    /\ written = [effective_date |-> TRUE, status |-> "Cleared", code |-> TRUE,
                  description |-> "text", comment |-> 2, tags |-> 2, postings |-> 2]
    /\ Len(text1) > 0

----------------------------------------------------------------------------
(* The pending comment of the conversion *)

ClearingTypes == {"EmptyLine", "Transaction", "CommodityPrice"}

\* the pending comment after the first n items: cleared by the three
\* clearing kinds, extended by a LineComment, left alone by an Include
RECURSIVE PendingComment(_, _)
PendingComment(list, n) ==
    IF n = 0 THEN None
    ELSE IF list[n].type \in ClearingTypes THEN None
    ELSE IF list[n].type = "LineComment"
    THEN (IF IsSome(PendingComment(list, n - 1))
          THEN Some(PendingComment(list, n - 1)[1] \o <<"\n">> \o list[n].v)
          ELSE Some(list[n].v))
    ELSE PendingComment(list, n - 1)

\* the transaction of the converted Ledger that comes from item i
ConvertedFrom(i) ==
    doc.transactions[Cardinality({j \in 1..i : input[j].type = "Transaction"})]

\* C28: pending-comment accumulator. While the items are converted in
\* order the pending comment is cleared by EmptyLine, Transaction and
\* CommodityPrice, extended by LineComment and left unchanged by Include.
\* Hence a transaction that directly follows an empty line, a price or a
\* transaction keeps its own comment, and comments before an Include that
\* directly precedes a transaction are attached to that transaction.
PendingCommentAccumulator ==
    /\ pc = "convert" => result.current_comment = PendingComment(input, round - 1)
    /\ pc = "converted" =>
           \A i \in 1..Len(input) :
               input[i].type = "Transaction" =>
                   /\ (i > 1 /\ input[i - 1].type \in ClearingTypes) =>
                          ConvertedFrom(i).comment = input[i].v.comment
                   /\ (i = 3 /\ input[2].type = "Include" /\ input[1].type = "LineComment") =>
                          ConvertedFrom(i).comment =
                              Some(JoinLines(<<input[1].v>> \o OwnComment(input, i)))

\* C28 witness: a comment, an Include and a transaction have been
\* converted, and the transaction has the comment.
CommentCarriedOverInclude ==
    /\ pc = "converted"
    /\ Len(input) = 3
    /\ input[1] = Item("LineComment", <<"c">>)
    /\ input[2].type = "Include"
    /\ input[3].type = "Transaction"
    /\ input[3].v.comment = None
    /\ doc.transactions[1].comment = Some(<<"c">>)

----------------------------------------------------------------------------
(* The conversion of from_ast.rs: the item list of the ast to the
   transactions and commodity prices of the simplified Ledger *)

AstPosting(account, amount, balance) ==
    [account |-> account, amount |-> amount, balance |-> balance,
     status |-> None, comment |-> None]

OneDollar == Amount([neg |-> FALSE, mant |-> 1, scale |-> 0], <<"$">>, "Left")

AstTransaction(comment, postings) ==
    [comment |-> comment, date |-> [y |-> 2018, m |-> 10, d |-> 1],
     effective_date |-> None, status |-> Some("Pending"), code |-> None,
     description |-> <<"A">>, postings |-> postings]

\* the items of the ast: the last transaction has a posting with a balance
\* assertion and no amount
AstItemAlphabet ==
    << Item("EmptyLine", <<>>),
       Item("LineComment", <<"c">>),
       Item("Transaction",
            AstTransaction(None, <<AstPosting(<<"B">>, Some(OneDollar), None)>>)),
       Item("Transaction",
            AstTransaction(Some(<<"t">>),
                           <<AstPosting(<<"B">>, Some(OneDollar), None),
                             AstPosting(<<"C">>, Some(OneDollar), Some(BalanceZero))>>)),
       Item("Transaction",
            AstTransaction(None, <<AstPosting(<<"B">>, Some(OneDollar), None),
                                   AstPosting(<<"C">>, None, Some(BalanceZero))>>)),
       Item("CommodityPrice", ScenarioPrice) >>

RECURSIVE AstItemLists(_)
AstItemLists(n) ==
    IF n = 0 THEN {<<>>}
    ELSE AstItemLists(n - 1)
         \cup {Append(l, i) : l \in {k \in AstItemLists(n - 1) : Len(k) = n - 1},
                              i \in 1..Len(AstItemAlphabet)}

\* p.amount.unwrap() panics on a posting without amount
Unwraps(t) == \A i \in 1..Len(t.postings) : IsSome(t.postings[i].amount)

\* TryFrom<ast::Transaction> for simple::Transaction, where every amount
\* unwraps
TryFromTransaction(t) ==
    [comment |-> t.comment, date |-> t.date, effective_date |-> t.effective_date,
     status |-> t.status, code |-> t.code, description |-> t.description,
     postings |-> [i \in 1..Len(t.postings) |->
                      [account |-> t.postings[i].account,
                       amount |-> t.postings[i].amount[1],
                       status |-> t.postings[i].status,
                       comment |-> t.postings[i].comment]]]

\* the body of the loop over the items of the ast
TryFromItemStep(acc, item) ==
    CASE item.type = "EmptyLine" -> [acc EXCEPT !.current_comment = None]
      [] item.type = "LineComment" ->
           [acc EXCEPT !.current_comment =
               IF IsSome(acc.current_comment)
               THEN Some(acc.current_comment[1] \o <<"\n">> \o item.v)
               ELSE Some(item.v)]
      [] item.type = "Transaction" ->
           [acc EXCEPT
               !.transactions = Append(@, TryFromTransaction(
                   IF IsSome(acc.current_comment)
                   THEN [item.v EXCEPT !.comment =
                            IF IsSome(item.v.comment)
                            THEN Some(acc.current_comment[1] \o <<"\n">> \o item.v.comment[1])
                            ELSE Some(acc.current_comment[1])]
                   ELSE item.v)),
               !.current_comment = None]
      [] item.type = "CommodityPrice" ->
           [acc EXCEPT !.commodity_prices = Append(@, item.v),
                       !.current_comment = None]

InitTryFrom ==
    /\ \E l \in AstItemLists(MaxItems) :
          /\ input = [j \in 1..Len(l) |-> AstItemAlphabet[l[j]]]
          /\ written = l
    /\ settings = SettingsDefault
    /\ pc = "try_from"
    /\ round = 1
    /\ rest = <<>>
    /\ items = <<>>
    /\ result = [transactions |-> <<>>, commodity_prices |-> <<>>,
                 current_comment |-> None]
    /\ doc = <<>>
    /\ text1 = <<>>
    /\ text2 = <<>>

TryFromItem ==
    /\ pc = "try_from"
    /\ round <= Len(input)
    /\ input[round].type = "Transaction" => Unwraps(input[round].v)
    /\ result' = TryFromItemStep(result, input[round])
    /\ round' = round + 1
    /\ UNCHANGED <<input, written, settings, pc, rest, items, doc, text1, text2>>

TryFromPanic ==
    /\ pc = "try_from"
    /\ round <= Len(input)
    /\ input[round].type = "Transaction"
    /\ ~Unwraps(input[round].v)
    /\ pc' = "panicked"
    /\ UNCHANGED <<input, written, settings, round, rest, items, result, doc, text1, text2>>

TryFromEnd ==
    /\ pc = "try_from"
    /\ round > Len(input)
    /\ doc' = [transactions |-> result.transactions,
               commodity_prices |-> result.commodity_prices]
    /\ pc' = "converted"
    /\ UNCHANGED <<input, written, settings, round, rest, items, result, text1, text2>>

NextTryFrom == TryFromItem \/ TryFromPanic \/ TryFromEnd

SpecTryFrom == InitTryFrom /\ [][NextTryFrom]_vars

ItemsOfType(list, type) ==
    SelectSeq([i \in 1..Len(list) |-> i], LAMBDA i : list[i].type = type)

\* posting q is posting p with nothing changed
SamePosting(p, q) ==
    /\ q.account = p.account
    /\ q.status = p.status
    /\ q.comment = p.comment
    /\ IF IsSome(p.amount) THEN Some(q.amount) = p.amount ELSE q.amount = p.amount

\* transaction u is transaction t with nothing but the comment changed
SameButComment(t, u) ==
    /\ u.date = t.date
    /\ u.effective_date = t.effective_date
    /\ u.status = t.status
    /\ u.code = t.code
    /\ u.description = t.description
    /\ Len(u.postings) = Len(t.postings)
    /\ \A i \in 1..Len(t.postings) : SamePosting(t.postings[i], u.postings[i])

\* the conversion of model_internal.rs keeps every transaction and price
ConversionKeepsItems ==
    pc = "converted" =>
        /\ Len(doc.transactions) = Len(ItemsOfType(input, "Transaction"))
        /\ \A k \in 1..Len(doc.transactions) :
               doc.transactions[k] =
                   [input[ItemsOfType(input, "Transaction")[k]].v
                       EXCEPT !.comment = doc.transactions[k].comment]
        /\ doc.commodity_prices =
               [k \in 1..Len(ItemsOfType(input, "CommodityPrice")) |->
                   input[ItemsOfType(input, "CommodityPrice")[k]].v]

\* C29: conversion keeps every transaction and price. The conversion
\* outputs exactly the Transaction items and exactly the CommodityPrice
\* items in their original relative order; apart from the comment of a
\* transaction no field of a transaction, posting or price is changed.
ConversionKeepsEveryTransactionAndPrice ==
    /\ pc # "panicked"
    /\ pc = "converted" =>
           /\ Len(doc.transactions) = Len(ItemsOfType(input, "Transaction"))
           /\ \A k \in 1..Len(doc.transactions) :
                  SameButComment(input[ItemsOfType(input, "Transaction")[k]].v,
                                 doc.transactions[k])
           /\ doc.commodity_prices =
                  [k \in 1..Len(ItemsOfType(input, "CommodityPrice")) |->
                      input[ItemsOfType(input, "CommodityPrice")[k]].v]

\* the same for the item lists whose postings all have an amount
ConversionKeepsPostingsWithAmount ==
    (\A i \in 1..Len(input) : input[i].type = "Transaction" => Unwraps(input[i].v))
        => ConversionKeepsEveryTransactionAndPrice

----------------------------------------------------------------------------
(* Progress of the loops and termination of parse_ledger *)

Suffixes(s) == {Drop(s, i) : i \in 0..Len(s)}

\* a parser's result on s has taken at least one character when it is Ok
Consumes(r, s) == r.k = "Ok" => Len(r.rest) < Len(s)

LoopProgress ==
    pc = "parse" =>
        /\ Consumes(parse_ledger_item(rest), rest)
        /\ (rest = <<>> => parse_empty_line(rest).k = "Error")
        /\ \A s \in Suffixes(rest) :
               /\ Consumes(parse_posting(s), s)
               /\ Consumes(MetadataLine(s), s)
        /\ Len(items) + Len(rest) <= Len(ParsedText)

\* a step of the top-level loop either ends the loop or appends one item
\* and leaves a shorter rest
LoopStep ==
    pc = "parse" =>
        \/ pc' = "parsed"
        \/ /\ pc' = "parse"
           /\ Len(items') = Len(items) + 1
           /\ Len(rest') < Len(rest)

\* C30: progress and termination. Every successful parse of a top-level
\* item takes at least one character (the empty-line alternative takes
\* nothing from an empty rest), and so does every iteration of the posting
\* loop and of the metadata fold; every step of the top-level loop shortens
\* the rest or ends the loop, so the loop makes at most as many iterations
\* as the text has characters and parse_ledger comes to its end.
ProgressAndTermination == []LoopProgress /\ [][LoopStep]_vars

\* C30 witness: a text of MaxFragments items has been parsed to its end.
AllFragmentsParsed ==
    /\ pc = "parsed"
    /\ round = 1
    /\ result.k = "Ok"
    /\ Len(result.ledger) = MaxFragments
    /\ rest = <<>>

====
